---- MODULE Spec2Model ----
(***************************************************************************)
(* A model of src/src/h.ts: the virtual-node tree and its reconciliation,  *)
(* the hooks runtime (creation and update dialects), the context/provider  *)
(* mechanism and the RenderController scheduler (depth-ordered heap,       *)
(* microtask drain loop, layout-effect and passive-effect stacks).         *)
(*                                                                         *)
(* The JavaScript heap is modelled by value: component instances and       *)
(* provider nodes live in the tables comps and provs and are referred to   *)
(* by index; host (DOM) nodes live in the table dom.  Element, Fragment,   *)
(* Text and Null virtual nodes are nested values inside their holder.      *)
(* One task of the event loop (mount, an event handler, the microtask      *)
(* drain, the animation-frame flush) runs to completion before the next;   *)
(* the drain loop and the flushes advance one loop iteration per step,     *)
(* with pc recording the position inside the running task.                 *)
(* The variable trace is the log of what the last step did, in order.      *)
(***************************************************************************)
EXTENDS Integers, Sequences, FiniteSets, TLC

VARIABLES
    app,            \* which application (root descriptor) is mounted
    root,           \* the root virtual node, <<>> before mount
    comps,          \* ComponentNode instances, by id
    provs,          \* ProviderNode instances, by id
    dom,            \* host nodes, by id; node 1 is the mount container
    updateQueue,    \* RenderController.updateQueue (binary heap array)
    effects,        \* RenderController.effects (stack of closures)
    layoutEffects,  \* RenderController.layoutEffects (stack of closures)
    microtasks,     \* number of renderLoop callbacks queued by Promise.then
    rafs,           \* number of flush callbacks queued by requestAnimationFrame
    hooks,          \* the module-level `hooks` pointer: 0 unset, else component id
    pc,             \* position of the running task, "idle" between tasks
    invoked,        \* per cleanup function (token), how often it was called
    globalNode,     \* whether the page defines a global named `node`
    refs,           \* what each ref (callback or box) was last given, 0 for null
    clicks,         \* number of event-handler tasks run so far
    trace           \* log of the last step

vars == <<app, root, comps, provs, dom, updateQueue, effects, layoutEffects,
          microtasks, rafs, hooks, pc, invoked, globalNode, refs, clicks, trace>>

-----------------------------------------------------------------------------
(* Bounds *)

\* state cells hold values 0..MaxVal
MaxVal == 2
\* number of event-handler tasks (setter calls from outside a render)
MaxClicks == 3

Vals == 0..MaxVal

-----------------------------------------------------------------------------
(* Generic helpers *)

\* The({e : x \in {d}}) is the value of e with x standing for the value of d:
\* an intermediate result (a local constant of the source) is named this way,
\* the inner bindings first
The(S) == CHOOSE x \in S : TRUE

Ev(e, a, b) == [e |-> e, a |-> a, b |-> b]

Log(W, e, a, b) == [W EXCEPT !.trace = Append(@, Ev(e, a, b))]

Range(s) == {s[i] : i \in 1..Len(s)}

Min(a, b) == IF a < b THEN a ELSE b

Max(a, b) == IF a > b THEN a ELSE b

Front(s) == SubSeq(s, 1, Len(s) - 1)

Last(s) == s[Len(s)]

\* position of x in s, 0 when absent
IndexOf(s, x) ==
    IF \E i \in 1..Len(s) : s[i] = x
    THEN CHOOSE i \in 1..Len(s) : s[i] = x /\ \A j \in 1..(i - 1) : s[j] # x
    ELSE 0

Without(s, x) ==
    The({
        (IF i = 0 THEN s ELSE SubSeq(s, 1, i - 1) \o SubSeq(s, i + 1, Len(s)))
        : i \in {IndexOf(s, x)}})

\* JavaScript's !== on the modelled values: NaN is unequal to itself
NaN == 0 - 1

StrictNeq(a, b) == a # b \/ a = NaN

-----------------------------------------------------------------------------
(* Dependency lists: [has |-> FALSE] is an absent (undefined) list *)

NoDeps == [has |-> FALSE, d |-> <<>>]

Deps(d) == [has |-> TRUE, d |-> d]

haveDependenciesChanged_NoLength(previous, next) ==
    IF ~previous.has \/ ~next.has THEN TRUE
    ELSE \E i \in 1..Min(Len(previous.d), Len(next.d)) : StrictNeq(previous.d[i], next.d[i])

haveDependenciesChanged(previous, next) ==
    IF ~previous.has \/ ~next.has \/ Len(previous.d) # Len(next.d) THEN TRUE
    ELSE \E i \in 1..Len(previous.d) : StrictNeq(previous.d[i], next.d[i])

-----------------------------------------------------------------------------
(* Host platform: the DOM operations h.ts uses *)

OrdNames == {1, 2}

Unset == 0

NewHostNode(W, kind, text) ==
    Log([W EXCEPT !.dom = Append(@, [kind |-> kind, text |-> text, kids |-> <<>>,
                                      props |-> [n \in OrdNames |-> Unset]])],
        "hostCreate", Len(W.dom) + 1, 0)

parentNode(d, n) ==
    IF \E p \in 1..Len(d) : n \in Range(d[p].kids)
    THEN CHOOSE p \in 1..Len(d) : n \in Range(d[p].kids)
    ELSE 0

nextSibling(d, n) ==
    The({The({
        (IF p = 0 \/ i = Len(d[p].kids) THEN 0 ELSE d[p].kids[i + 1])
        : i \in {IF p = 0 THEN 0 ELSE IndexOf(d[p].kids, n)}})
        : p \in {parentNode(d, n)}})

Attached(d, n) ==
    LET RECURSIVE Up(_, _)
        Up(m, fuel) == IF m = 1 THEN TRUE
                       ELSE IF m = 0 \/ fuel = 0 THEN FALSE
                       ELSE Up(parentNode(d, m), fuel - 1)
    IN  Up(n, Len(d))

\* take every node of ins out of whatever parent holds it
Detach(d, ins) ==
    [p \in 1..Len(d) |->
        [d[p] EXCEPT !.kids = SelectSeq(@, LAMBDA k : k \notin Range(ins))]]

\* node.remove()
DomRemove(W, n) ==
    Log([W EXCEPT !.dom = Detach(@, <<n>>)], "hostRemove", n, 0)

\* node.replaceWith(ins): nothing happens to a node that has no parent
DomReplaceWith(W, n, ins) ==
    The({The({
        (IF p = 0 THEN Log(W, "hostReplace", n, 0)
         ELSE Log([W EXCEPT !.dom = [d1 EXCEPT ![p].kids =
                      SubSeq(ks, 1, i - 1) \o ins \o SubSeq(ks, i + 1, Len(ks))]],
                  "hostReplace", n, 1))
        : i \in {IndexOf(W.dom[p].kids, n)},
          ks \in {W.dom[p].kids},
          d1 \in {Detach(W.dom, ins)}})
        : p \in {parentNode(W.dom, n)}})

\* parent.appendChild(ins)
DomAppend(W, p, ins) ==
    The({
        (Log([W EXCEPT !.dom = [d1 EXCEPT ![p].kids = @ \o ins]], "hostInsert", p, Len(ins)))
        : d1 \in {Detach(W.dom, ins)}})

\* parent.insertBefore(ins, ref)
DomInsertBefore(W, p, ins, ref) ==
    The({The({The({
        (Log([W EXCEPT !.dom = [d1 EXCEPT ![p].kids =
                 SubSeq(ks, 1, i - 1) \o ins \o SubSeq(ks, i, Len(ks))]],
             "hostInsert", p, Len(ins)))
        : i \in {IndexOf(ks, ref)}})
        : ks \in {d1[p].kids}})
        : d1 \in {Detach(W.dom, ins)}})

\* node[name] = value
DomSetProp(W, n, name, value) ==
    Log([W EXCEPT !.dom[n].props[name] = value], "hostSet", n, name)

\* node.nodeValue = text
DomSetText(W, n, text) ==
    Log([W EXCEPT !.dom[n].text = text], "hostText", n, 0)

-----------------------------------------------------------------------------
(* The dirty heap: a binary min-heap on depth, stored in an array.         *)
(* Arrays are 0-based in the source and 1-based here: index i of the       *)
(* source is position i + 1.                                               *)

Depth(W, c) == W.comps[c].depth

\* queue[index] = node, where index may be the array's length
SetAt(q, index, node) ==
    IF index = Len(q) THEN Append(q, node) ELSE [q EXCEPT ![index + 1] = node]

enqueueNode_NoSift(W, queue, node) == Append(queue, node)

enqueueNode(W, queue, node) ==
    LET RECURSIVE Up(_, _)
        Up(q, index) ==
            The({
                (IF index > 0 /\ Depth(W, q[parentIndex + 1]) > Depth(W, node)
                 THEN Up(SetAt(q, index, q[parentIndex + 1]), parentIndex)
                 ELSE SetAt(q, index, node))
                : parentIndex \in {(index - 1) \div 2}})
    IN  Up(queue, Len(queue))

\* a dequeue that puts the last entry at the top and leaves it there
dequeueNode_NoSiftDown(W, queue) ==
    IF Len(queue) = 1 THEN [node |-> queue[1], queue |-> <<>>]
    ELSE [node |-> queue[1], queue |-> [Front(queue) EXCEPT ![1] = Last(queue)]]

\* returns [node |-> the popped component, queue |-> what is left]
dequeueNode(W, queue) ==
    LET lastNode == Last(queue)
        q0 == Front(queue)
        length == Len(q0)
        RECURSIVE Down(_, _)
        Down(q, index) ==
            The({The({
                (IF rightIndex < length
                 THEN The({The({The({
                          (IF Depth(W, lastNode) <= Depth(W, candidate)
                           THEN [q EXCEPT ![index + 1] = lastNode]
                           ELSE Down([q EXCEPT ![index + 1] = candidate], candidateIndex))
                          : candidate \in {q[candidateIndex + 1]}})
                          : candidateIndex \in {IF Depth(W, left) < Depth(W, right)
                                                THEN leftIndex ELSE rightIndex}})
                          : left \in {q[leftIndex + 1]},
                            right \in {q[rightIndex + 1]}})
                 ELSE IF leftIndex < length /\ Depth(W, lastNode) > Depth(W, q[leftIndex + 1])
                 THEN [[q EXCEPT ![index + 1] = q[leftIndex + 1]] EXCEPT ![leftIndex + 1] = lastNode]
                 ELSE [q EXCEPT ![index + 1] = lastNode])
                : rightIndex \in {leftIndex + 1}})
                : leftIndex \in {2 * index + 1}})
    IN  IF length = 0 THEN [node |-> lastNode, queue |-> q0]
        ELSE [node |-> q0[1], queue |-> Down([q0 EXCEPT ![1] = lastNode], 0)]

-----------------------------------------------------------------------------
(* Descriptors (NodeConfig).  Object identity is a number: 0 is a freshly  *)
(* allocated object, which is reference-equal to nothing stored earlier;   *)
(* a non-zero number names an object the application keeps and re-supplies.*)

SameRef(a, b) == a # 0 /\ a = b

Undefined == 0 - 2

\* attribute names in the order JavaScript's string comparison gives them:
\* "a" < "b" < "children" < "ref"
NameChildren == 3

NameRef == 4

Attr(name, value) == [name |-> name, value |-> value, kids |-> <<>>]

Children(ident, kids) == [name |-> NameChildren, value |-> ident, kids |-> kids]

CNull == [k |-> "null", tag |-> "", pid |-> 0, cid |-> 0, val |-> 0, tok |-> 0,
          props |-> {}, kids |-> <<>>]

CText(v) == [CNull EXCEPT !.k = "text", !.val = v]

CFrag(kids) == [CNull EXCEPT !.k = "frag", !.kids = kids]

CElem(tag, pid, props) == [CNull EXCEPT !.k = "elem", !.tag = tag, !.pid = pid, !.props = props]

CComp(fn, pid, val) == [CNull EXCEPT !.k = "comp", !.tag = fn, !.pid = pid, !.val = val]

CProv(tok, cid, pid, val, kids) ==
    [CNull EXCEPT !.k = "prov", !.tok = tok, !.cid = cid, !.pid = pid, !.val = val, !.kids = kids]

\* h.ts:559 and 533-538: null, undefined, true and false render nothing
IsNullConfig(cfg) == cfg.k = "null"

-----------------------------------------------------------------------------
(* Context tokens *)

Tokens == {1, 2}

\* createContext(defaultValue): the default of token t
DefaultValue(t) == 90 + t

NoProviders == [t \in Tokens |-> 0]

-----------------------------------------------------------------------------
(* The applications: component functions as the hook calls they make and   *)
(* the descriptor they return.  sv are the values the state hooks return   *)
(* in this render, cv the values the context hooks return.                 *)

Body(ret, set, to) == [ret |-> ret, set |-> set, to |-> to]

NoBody == Body(FALSE, 0, 0)

HBase == [h |-> "", init |-> 0, deps |-> NoDeps, body |-> NoBody, tok |-> 0, slot |-> 0, to |-> 0]

HState(init) == [HBase EXCEPT !.h = "state", !.init = init]

HMemo(deps) == [HBase EXCEPT !.h = "memo", !.deps = deps]

HEffect(deps, body) == [HBase EXCEPT !.h = "effect", !.deps = deps, !.body = body]

HLayoutEffect(deps, body) == [HBase EXCEPT !.h = "layout", !.deps = deps, !.body = body]

HContext(tok) == [HBase EXCEPT !.h = "context", !.tok = tok]

\* a throw statement in the component function, executed when cond holds
HThrow(cond) == [HBase EXCEPT !.h = "throw", !.to = IF cond THEN 1 ELSE 0]

\* a call of the setter of state slot `slot` made while rendering
\* useImperativeHandle(ref, producer, dependencies): tok names the ref (0: none),
\* to the handle the producer returns
HHandle(ref, deps, handle) == [HBase EXCEPT !.h = "handle", !.tok = ref, !.deps = deps, !.to = handle]

HSet(slot, to) == [HBase EXCEPT !.h = "set", !.slot = slot, !.to = to]

Apps == {"ctx", "unmount", "list", "attrs", "deps"}

RootConfig(a) ==
    CASE a = "ctx" -> CComp("RootCtx", 0, 0)
      [] a = "unmount" -> CComp("RootUn", 0, 0)
      [] a = "list" -> CComp("RootList", 0, 0)
      [] a = "attrs" -> CComp("RootAttrs", 0, 0)
      [] a = "deps" -> CComp("RootDeps", 0, 0)
      [] a = "tree" -> CComp("RootTree", 0, 0)
      [] a = "counter" -> CComp("Counters", 0, 0)
      [] a = "throw" -> CComp("RootThrow", 0, 0)
      [] a = "batch" -> CComp("RootBatch", 0, 0)
      [] a = "subs" -> CComp("RootSubs", 0, 0)
      [] a = "handle" -> CComp("RootHandle", 0, 0)
      [] a = "ref" -> CComp("RootRef", 0, 0)
      [] a = "flush" -> CComp("RootFlush", 0, 0)

\* the dependency lists RootDeps passes: their length and content follow its state
DepList(x, y, absent) ==
    IF y = 0 THEN Deps(<<x>>)
    ELSE IF y = 1 THEN Deps(<<x, 0>>)
    ELSE IF absent THEN NoDeps ELSE Deps(<<>>)

Program(fn, p, sv) ==
    CASE fn = "RootCtx" -> <<HState(0), HState(0)>>
      [] fn = "Reader" -> <<HContext(1), HContext(2)>>
      [] fn = "Plain" -> <<HState(0), HSet(1, IF sv[1] = MaxVal THEN 0 ELSE sv[1])>>
      [] fn = "RootUn" -> <<HState(0), HState(0)>>
      [] fn = "Eff" -> <<HState(0), HContext(1),
                         HEffect(Deps(<<sv[1]>>), Body(TRUE, 1, Min(sv[1], 1))),
                         HLayoutEffect(NoDeps, Body(TRUE, 0, 0))>>
      [] fn = "RootList" -> <<HState(0), HState(0)>>
      [] fn = "RootAttrs" -> <<HState(0), HState(0)>>
      [] fn = "RootDeps" -> <<HState(0), HState(0),
                              HMemo(DepList(sv[1], sv[2], FALSE)),
                              HEffect(DepList(sv[1], sv[2], TRUE), NoBody),
                              HLayoutEffect(Deps(<<sv[1], 0>>), NoBody)>>
      [] fn = "Leaf" -> <<>>
      [] fn = "Counters" -> <<>>
      [] fn = "Counter" -> <<HState(0)>>
      [] fn = "RootThrow" -> <<>>
      [] fn = "RootBatch" -> <<HState(0)>>
      [] fn = "RootSubs" -> <<HState(0)>>
      [] fn = "Switch" -> <<HState(0), HContext(1), HContext(IF sv[1] = 0 THEN 1 ELSE 2)>>
      [] fn = "RootHandle" -> <<HState(0)>>
      [] fn = "RootRef" -> <<HState(0), HState(0)>>
      [] fn = "RootFlush" -> <<HState(0),
                               HEffect(Deps(<<sv[1]>>), Body(TRUE, 0, sv[1])),
                               HLayoutEffect(NoDeps, NoBody)>>
      [] fn = "Handle" -> <<HState(0), HState(0),
                            HHandle(IF sv[1] = 0 THEN 1 ELSE 2, Deps(<<sv[2]>>), 10 + sv[2])>>
      [] fn = "Kid" -> <<HState(0), HSet(1, IF sv[1] = MaxVal THEN 0 ELSE sv[1])>>
      [] fn = "Sib" -> <<HState(0), HLayoutEffect(Deps(<<sv[1]>>), NoBody)>>
      [] fn = "Boom" -> <<HState(0), HThrow(sv[1] = MaxVal)>>
      [] fn = "RootTree" -> <<HState(0)>>
      [] fn = "Mid" -> <<HState(0), HSet(1, IF sv[1] = MaxVal THEN 0 ELSE sv[1])>>
      [] fn = "Low" -> <<HState(1),
                         HLayoutEffect(Deps(<<sv[1]>>),
                                       Body(FALSE, 1, IF sv[1] = 1 THEN 2 ELSE sv[1])),
                         HEffect(Deps(<<sv[1]>>), NoBody)>>

\* the values of the state cells a first render sees
InitVals(fn) ==
    CASE fn \in {"RootCtx", "RootUn", "RootList", "RootAttrs", "RootDeps", "RootRef"} -> <<0, 0>>
      [] fn \in {"Plain", "Eff", "RootTree", "Mid", "Counter", "Sib", "Boom",
                 "RootBatch", "Kid", "RootSubs", "Switch", "RootHandle", "RootFlush"} -> <<0>>
      [] fn = "Handle" -> <<0, 0>>
      [] fn = "Low" -> <<1>>
      [] OTHER -> <<>>

\* the click handler of Counter, a callback that is the same object in every render
Increment == 5

Items(n) == [i \in 1..n |-> CText(i)]

Output(fn, p, sv, cv) ==
    CASE fn = "RootCtx" ->
            CFrag(<<CProv(1, 0, 0, sv[1],
                       <<CComp("Reader", 0, 0),
                         CComp("Reader", 11, 0),
                         CComp("Plain", 12, 0),
                         CProv(1, 0, 20 + sv[2], 10 + sv[2],
                               <<CComp("Reader", 13, 0), CElem("i", 17, {})>>)>>),
                    CComp("Reader", 14, 0)>>)
      [] fn = "Reader" -> CFrag(<<CText(cv[1]), CText(cv[2])>>)
      [] fn = "Plain" -> CElem("span", 15, {Children(16, <<CText(7)>>)})
      [] fn = "RootUn" ->
            CProv(1, 0, 0, 7,
                  IF sv[1] = 0 THEN <<CComp("Eff", 0, 0)>>
                  ELSE IF sv[1] = 1 THEN <<CNull>>
                  ELSE <<CNull, CElem("div", 0, {Children(0, <<CComp("Eff", 0, 0)>>)})>>)
      [] fn = "Eff" -> CElem("p", 0, {Children(0, <<CText(sv[1])>>)})
      [] fn = "RootList" ->
            CFrag(<<CFrag(Items(sv[1])), CElem("ul", 0, {Children(0, Items(sv[2]))})>>)
      [] fn = "RootAttrs" ->
            CElem("div", 0,
                  {Attr(1, IF sv[1] = 0 THEN Undefined ELSE sv[1])}
                  \cup (IF sv[2] = 0 THEN {} ELSE {Attr(2, sv[2])}))
      [] fn = "RootDeps" -> CText(0)
      [] fn = "Leaf" -> CText(0)
      [] fn = "RootTree" -> CFrag(<<CComp("Mid", 31, 0), CComp("Mid", 32, 0)>>)
      [] fn = "Mid" -> CElem("div", 0, {Children(0, <<CText(sv[1]), CComp("Low", 0, 0)>>)})
      [] fn = "Low" -> CText(sv[1])
      [] fn = "RootSubs" ->
            CProv(1, 0, 0, sv[1],
                  <<CProv(2, 0, 0, 7,
                          <<IF sv[1] = MaxVal THEN CNull ELSE CComp("Switch", 61, 0)>>)>>)
      [] fn = "Switch" -> CFrag(<<CText(cv[1]), CText(cv[2])>>)
      [] fn = "RootHandle" -> IF sv[1] = MaxVal THEN CNull ELSE CComp("Handle", 71, 0)
      [] fn = "Handle" -> CText(sv[2])
      [] fn = "RootFlush" -> CText(sv[1])
      [] fn = "RootRef" ->
            CElem("div", 0, {Attr(1, sv[2]), Attr(NameRef, IF sv[1] = 0 THEN 1 ELSE 2)})
      [] fn = "RootBatch" ->
            CElem("div", 0, {Children(0, <<IF sv[1] = 1 THEN CNull ELSE CComp("Kid", 0, 0)>>)})
      [] fn = "Kid" -> CText(sv[1])
      [] fn = "RootThrow" ->
            CFrag(<<CComp("Sib", 51, 0), CComp("Boom", 52, 0), CComp("Sib", 53, 0)>>)
      [] fn = "Sib" -> CText(sv[1])
      [] fn = "Boom" -> CText(sv[1])
      [] fn = "Counters" -> CFrag(<<CComp("Counter", 41, 0), CComp("Counter", 42, 0)>>)
      [] fn = "Counter" ->
            CElem("div", 0,
                  {Children(0, <<CElem("button", 0, {Attr(2, Increment), Children(0, <<CText(9)>>)}),
                                 CElem("span", 0, {Children(0, <<CText(sv[1])>>)})>>)})

-----------------------------------------------------------------------------
(* RenderController requests *)

Throw(W) == Log([W EXCEPT !.err = TRUE], "throw", 0, 0)

DirtySet(W) == {c \in 1..Len(W.comps) : W.comps[c].dirty}

requestComponentRerender_NoDirtyCheck(W, node) ==
    IF ~W.comps[node].mounted THEN W
    ELSE The({
             (Log([W1 EXCEPT !.updateQueue = enqueueNode(W1, @, node)], "enqueue", node, 0))
             : W1 \in {[W EXCEPT !.comps[node].dirty = TRUE,
                                 !.microtasks = IF Len(W.updateQueue) = 0 THEN @ + 1 ELSE @]}})

requestComponentRerender_NoMountedCheck(W, node) ==
    IF W.comps[node].dirty THEN W
    ELSE The({
             (Log([W1 EXCEPT !.updateQueue = enqueueNode(W1, @, node)], "enqueue", node, 0))
             : W1 \in {[W EXCEPT !.comps[node].dirty = TRUE,
                                 !.microtasks = IF Len(W.updateQueue) = 0 THEN @ + 1 ELSE @]}})

requestComponentRerender_NoEnqueue(W, node) ==
    IF W.comps[node].dirty \/ ~W.comps[node].mounted THEN W
    ELSE [W EXCEPT !.comps[node].dirty = TRUE]

requestComponentRerender(W, node) ==
    IF W.comps[node].dirty \/ ~W.comps[node].mounted THEN W
    ELSE The({
             (Log([W1 EXCEPT !.updateQueue = enqueueNode(W1, @, node)], "enqueue", node, 0))
             : W1 \in {[W EXCEPT !.comps[node].dirty = TRUE,
                                 !.microtasks = IF Len(W.updateQueue) = 0 THEN @ + 1 ELSE @]}})

requestEffect(W, effect) ==
    [W EXCEPT !.rafs = IF Len(W.effects) = 0 THEN @ + 1 ELSE @,
              !.effects = Append(@, effect)]

requestLayoutEffect(W, effect) ==
    [W EXCEPT !.layoutEffects = Append(@, effect)]

-----------------------------------------------------------------------------
(* State cells, setters and effect closures *)

\* what a call of a setter did, with the scheduler's state before and after
SetEvent(W0, W1, c, slot, old, new) ==
    [e |-> "setEnd", a |-> c, b |-> slot, old |-> old, new |-> new,
     stored |-> W1.comps[c].data[slot].value,
     mounted |-> W0.comps[c].mounted,
     dirtyB |-> DirtySet(W0), dirtyA |-> DirtySet(W1),
     queueB |-> W0.updateQueue, queueA |-> W1.updateQueue,
     microB |-> W0.microtasks, microA |-> W1.microtasks]

\* ComponentNode.rerender is defined with the virtual nodes below
RECURSIVE ComponentNode_rerender(_, _)

\* a setter that re-renders its component itself instead of asking the scheduler
Setter_RendersInline(W, c, slot, update) ==
    The({The({
        ([W2 EXCEPT !.trace = Append(@, SetEvent(W, W2, c, slot, oldValue, update))])
        : W2 \in {IF StrictNeq(oldValue, update) /\ W.comps[c].mounted /\ W.hooks = 0
                  THEN ComponentNode_rerender([W1 EXCEPT !.comps[c].data[slot].value = update], c)
                  ELSE W1}})
        : oldValue \in {W.comps[c].data[slot].value},
          W1 \in {Log(W, "setBegin", c, slot)}})

\* the setter closure made by CreationHooks.useState, called with a value
Setter_Unconditional(W, c, slot, update) ==
    The({The({
        ([W2 EXCEPT !.trace = Append(@, SetEvent(W, W2, c, slot, oldValue, update))])
        : W2 \in {requestComponentRerender([W1 EXCEPT !.comps[c].data[slot].value = update], c)}})
        : oldValue \in {W.comps[c].data[slot].value},
          W1 \in {Log(W, "setBegin", c, slot)}})

Setter(W, c, slot, update) ==
    The({The({
        ([W2 EXCEPT !.trace = Append(@, SetEvent(W, W2, c, slot, oldValue, newValue))])
        : W2 \in {IF StrictNeq(oldValue, newValue)
                  THEN requestComponentRerender([W1 EXCEPT !.comps[c].data[slot].value = newValue], c)
                  ELSE W1}})
        : oldValue \in {W.comps[c].data[slot].value},
          newValue \in {update},
          W1 \in {Log(W, "setBegin", c, slot)}})

\* calling a cleanup function: one an effect body returned (t > 0), or the
\* closure of useImperativeHandle that gives null to ref -t (t < 0)
InvokeCleanup(W, c, t) ==
    IF t < 0 THEN Log([W EXCEPT !.refs[-t] = 0], "ref", -t, 0)
    ELSE Log([W EXCEPT !.invoked[t] = @ + 1], "cleanup", c, t)

\* data.cleanup?.()
InvokeCleanupOpt(W, c, t) == IF t = 0 THEN W ELSE InvokeCleanup(W, c, t)

\* action(): the effect body; returns [w, ret], ret the cleanup it returned (0: none)
RunBody(W, c, e, body) ==
    The({The({
        (IF body.ret
         THEN [w |-> [W2 EXCEPT !.invoked = Append(@, 0)], ret |-> Len(W2.invoked) + 1]
         ELSE [w |-> W2, ret |-> 0])
        : W2 \in {IF body.set # 0 THEN Setter(W1, c, body.set, body.to) ELSE W1}})
        : W1 \in {Log(W, "effectBody", c, e)}})

\* the closures useCommonEffect returns (h.ts:891 and h.ts:993-996)
Closure(c, e, creation, body) == [c |-> c, e |-> e, creation |-> creation, body |-> body]

RunClosure(W, cl) ==
    The({The({
        ([r.w EXCEPT !.comps[cl.c].effects[cl.e].cleanup = r.ret])
        : r \in {RunBody(W1, cl.c, cl.e, cl.body)}})
        : W1 \in {IF cl.creation THEN W
                  ELSE InvokeCleanupOpt(W, cl.c, W.comps[cl.c].effects[cl.e].cleanup)}})

-----------------------------------------------------------------------------
(* ProviderNode.subscribe / unsubscribe and State.runCleanupEffects *)

\* Set.add / Set.delete: a JavaScript Set keeps insertion order
subscribe(W, p, c) ==
    [W EXCEPT !.provs[p].subscribers = IF c \in Range(@) THEN @ ELSE Append(@, c)]

unsubscribe(W, p, c) == [W EXCEPT !.provs[p].subscribers = Without(@, c)]

RECURSIVE UnsubscribeAll(_, _, _)
UnsubscribeAll(W, c, i) ==
    IF i > Len(W.comps[c].contexts) THEN W
    ELSE The({
             (UnsubscribeAll(IF p = 0 THEN W ELSE unsubscribe(W, p, c), c, i + 1))
             : p \in {W.comps[c].contexts[i].provider}})

RECURSIVE CleanupAll(_, _, _)
CleanupAll(W, c, i) ==
    IF i > Len(W.comps[c].effects) THEN W
    ELSE CleanupAll(InvokeCleanupOpt(W, c, W.comps[c].effects[i].cleanup), c, i + 1)

runCleanupEffects_NoUnsubscribe(W, c) == CleanupAll(W, c, 1)

runCleanupEffects(W, c) == CleanupAll(UnsubscribeAll(W, c, 1), c, 1)

\* ComponentNode.cleanup
cleanup_StaysMounted(W, c) ==
    runCleanupEffects(Log([W EXCEPT !.comps[c].dirty = FALSE], "cleanupBegin", c, 0), c)

cleanup(W, c) ==
    runCleanupEffects(
        Log([W EXCEPT !.comps[c].mounted = FALSE, !.comps[c].dirty = FALSE],
            "cleanupBegin", c, 0), c)

-----------------------------------------------------------------------------
(* CreationHooks: every call appends a slot *)

DataCell(kind, value, deps) == [kind |-> kind, value |-> value, deps |-> deps]

\* returns [w, v]: v the value the hook returns to the component function
CreationHooks_useContext(W, c, tok) ==
    The({The({The({
        ([w |-> Log(IF p # 0 THEN subscribe(W1, p, c) ELSE W1, "useContext", c, v), v |-> v])
        : W1 \in {[W EXCEPT !.comps[c].contexts =
                                Append(@, [context |-> tok, provider |-> p, read |-> v])]}})
        : v \in {IF p # 0 THEN W.provs[p].config.val ELSE DefaultValue(tok)}})
        : p \in {W.comps[c].providers[tok]}})

CreationHooks_useCommonEffect(W, c, h) ==
    [W EXCEPT !.comps[c].effects = Append(@, [dependencies |-> h.deps, cleanup |-> 0])]

\* the data object of useImperativeHandle: { ref, imperativeHandle, dependencies }
HandleCell(ref, imperativeHandle, dependencies) ==
    [kind |-> "handle", value |-> imperativeHandle, deps |-> dependencies, ref |-> ref]

\* ref(value) for a callback, ref.current = value for a box
attachRef(W, ref, value) == Log([W EXCEPT !.refs[ref] = value], "ref", ref, value)

CreationHooks_useImperativeHandle(W, c, h) ==
    The({The({
        (IF h.tok # 0
         THEN [attachRef(W2, h.tok, h.to)
                   EXCEPT !.comps[c].effects[Len(W2.comps[c].effects)].cleanup = -h.tok]
         ELSE W2)
        : W2 \in {Log([W1 EXCEPT !.comps[c].data[Len(W1.comps[c].data)].value = h.to],
                      "producer", c, Len(W1.comps[c].data))}})
        : W1 \in {[W EXCEPT !.comps[c].data = Append(@, HandleCell(h.tok, 0, h.deps)),
                            !.comps[c].effects = Append(@, [dependencies |-> NoDeps,
                                                            cleanup |-> 0])]}})

CreationHook(W, c, h) ==
    CASE h.h = "state" ->
            [w |-> [W EXCEPT !.comps[c].data = Append(@, DataCell("state", h.init, NoDeps))],
             v |-> h.init]
      [] h.h = "memo" ->
            [w |-> Log([W EXCEPT !.comps[c].data = Append(@, DataCell("memo", 0, h.deps))],
                       "producer", c, Len(W.comps[c].data) + 1),
             v |-> 0]
      [] h.h = "effect" ->
            The({
                ([w |-> requestEffect(W1, Closure(c, Len(W1.comps[c].effects), TRUE, h.body)),
                  v |-> 0])
                : W1 \in {CreationHooks_useCommonEffect(W, c, h)}})
      [] h.h = "layout" ->
            The({
                ([w |-> requestLayoutEffect(W1, Closure(c, Len(W1.comps[c].effects), TRUE, h.body)),
                  v |-> 0])
                : W1 \in {CreationHooks_useCommonEffect(W, c, h)}})
      [] h.h = "context" -> CreationHooks_useContext(W, c, h.tok)
      [] h.h = "set" -> [w |-> Setter(W, c, h.slot, h.to), v |-> 0]
      [] h.h = "throw" -> [w |-> IF h.to = 1 THEN Throw(W) ELSE W, v |-> 0]
      [] h.h = "handle" -> [w |-> CreationHooks_useImperativeHandle(W, c, h), v |-> 0]

-----------------------------------------------------------------------------
(* UpdateHooks: every call reads the slot at the next index.  ix holds     *)
(* stateIndex, effectIndex and contextIndex (0-based, as in the source).   *)

\* returns [w, v, n]: n the number of times the producer was called
UpdateHooks_useMemo(W, c, i, dependencies) ==
    The({The({The({The({
        ([w |-> [W2 EXCEPT !.comps[c].data[i].deps = dependencies], v |-> 0, n |-> n])
        : W2 \in {IF second THEN Log(W1, "producer", c, i) ELSE W1}})
        : n \in {(IF first THEN 1 ELSE 0) + (IF second THEN 1 ELSE 0)},
          W1 \in {IF first THEN Log(W, "producer", c, i) ELSE W}})
        : first \in {Len(memo.deps.d) # Len(dependencies.d)},
          second \in {\E j \in 1..Len(dependencies.d) :
                         IF j <= Len(memo.deps.d) THEN StrictNeq(dependencies.d[j], memo.deps.d[j])
                         ELSE TRUE}})
        : memo \in {W.comps[c].data[i]}})

\* returns [w, run]: run tells whether a closure was returned (not null)
UpdateHooks_useCommonEffect_Always(W, c, i, dependencies) ==
    [w |-> [W EXCEPT !.comps[c].effects[i].dependencies = dependencies], run |-> TRUE]

UpdateHooks_useCommonEffect(W, c, i, dependencies) ==
    IF haveDependenciesChanged(W.comps[c].effects[i].dependencies, dependencies)
    THEN [w |-> [W EXCEPT !.comps[c].effects[i].dependencies = dependencies], run |-> TRUE]
    ELSE [w |-> W, run |-> FALSE]

\* read is the value the hook call returned last
UpdateHooks_useContext_Stale(W, c, i, tok) ==
    The({
        ([w |-> Log(W, "useContext", c, data.read), v |-> data.read])
        : data \in {W.comps[c].contexts[i]}})

UpdateHooks_useContext(W, c, i, tok) ==
    The({
        (IF data.context # tok
         THEN The({The({The({
                  ([w |-> Log(IF p # 0 THEN subscribe(W2, p, c) ELSE W2, "useContext", c, v),
                    v |-> v])
                  : W2 \in {[W1 EXCEPT !.comps[c].contexts[i] =
                                           [context |-> tok, provider |-> p, read |-> v]]}})
                  : v \in {IF p # 0 THEN W.provs[p].config.val ELSE DefaultValue(tok)}})
                  : W1 \in {IF data.provider # 0 THEN unsubscribe(W, data.provider, c) ELSE W},
                    p \in {W.comps[c].providers[tok]}})
         ELSE The({
                  ([w |-> Log([W EXCEPT !.comps[c].contexts[i].read = v], "useContext", c, v),
                    v |-> v])
                  : v \in {IF data.provider # 0 THEN W.provs[data.provider].config.val
                           ELSE DefaultValue(data.context)}}))
        : data \in {W.comps[c].contexts[i]}})

\* s and e are the data and effect slots the call reads
UpdateHooks_useImperativeHandle(W, c, s, e, h) ==
    The({
        (IF haveDependenciesChanged(W1.comps[c].data[s].deps, h.deps)
         THEN The({
                  (IF h.tok # 0
                   THEN attachRef([W2 EXCEPT !.comps[c].effects[e].cleanup = -h.tok],
                                  h.tok, h.to)
                   ELSE [W2 EXCEPT !.comps[c].effects[e].cleanup = 0])
                  : W2 \in {Log([W1 EXCEPT !.comps[c].data[s].value = h.to],
                                "producer", c, s)}})
         ELSE W1)
        : W1 \in {IF h.tok # W.comps[c].data[s].ref
                  THEN [InvokeCleanupOpt(W, c, W.comps[c].effects[e].cleanup)
                            EXCEPT !.comps[c].data[s].ref = h.tok]
                  ELSE W}})

\* returns [w, v, ix]
UpdateHook(W, c, h, ix) ==
    CASE h.h = "state" ->
            [w |-> W, v |-> W.comps[c].data[ix.s + 1].value, ix |-> [ix EXCEPT !.s = @ + 1]]
      [] h.h = "memo" ->
            The({
                ([w |-> r.w, v |-> r.v, ix |-> [ix EXCEPT !.s = @ + 1]])
                : r \in {UpdateHooks_useMemo(W, c, ix.s + 1, h.deps)}})
      [] h.h = "effect" ->
            The({
                ([w |-> IF r.run THEN requestEffect(r.w, Closure(c, ix.e + 1, FALSE, h.body))
                        ELSE r.w,
                  v |-> 0, ix |-> [ix EXCEPT !.e = @ + 1]])
                : r \in {UpdateHooks_useCommonEffect(W, c, ix.e + 1, h.deps)}})
      [] h.h = "layout" ->
            The({
                ([w |-> IF r.run THEN requestLayoutEffect(r.w, Closure(c, ix.e + 1, FALSE, h.body))
                        ELSE r.w,
                  v |-> 0, ix |-> [ix EXCEPT !.e = @ + 1]])
                : r \in {UpdateHooks_useCommonEffect(W, c, ix.e + 1, h.deps)}})
      [] h.h = "context" ->
            The({
                ([w |-> r.w, v |-> r.v, ix |-> [ix EXCEPT !.c = @ + 1]])
                : r \in {UpdateHooks_useContext(W, c, ix.c + 1, h.tok)}})
      [] h.h = "set" -> [w |-> Setter(W, c, h.slot, h.to), v |-> 0, ix |-> ix]
      [] h.h = "throw" -> [w |-> IF h.to = 1 THEN Throw(W) ELSE W, v |-> 0, ix |-> ix]
      [] h.h = "handle" ->
            [w |-> UpdateHooks_useImperativeHandle(W, c, ix.s + 1, ix.e + 1, h), v |-> 0,
             ix |-> [ix EXCEPT !.s = @ + 1, !.e = @ + 1]]

-----------------------------------------------------------------------------
(* Running a component function: type(props) under the current hooks       *)

\* what a hook call with a dependency list did: prev is the list the previous
\* render supplied at this call, ran counts the producer calls (useMemo,
\* useImperativeHandle) or the
\* closures handed to the scheduler (useEffect, useLayoutEffect)
DepsEvent(W0, W1, c, i, h) ==
    LET producers(t) == Cardinality({k \in 1..Len(t) : t[k].e = "producer"})
        ran == CASE h.h \in {"memo", "handle"} -> producers(W1.trace) - producers(W0.trace)
                 [] h.h = "effect" -> Len(W1.effects) - Len(W0.effects)
                 [] h.h = "layout" -> Len(W1.layoutEffects) - Len(W0.layoutEffects)
    IN  [e |-> "deps", a |-> c, b |-> i, h |-> h.h,
         prev |-> W0.comps[c].supplied[i], next |-> h.deps, ran |-> ran]

RECURSIVE RunHooks(_, _, _, _, _, _, _)
RunHooks(W, c, creation, prog, i, ix, cv) ==
    IF i > Len(prog) \/ W.err THEN [w |-> W, cv |-> cv]
    ELSE IF creation
    THEN The({
             (RunHooks([r.w EXCEPT !.comps[c].supplied = Append(@, prog[i].deps)],
                       c, creation, prog, i + 1, ix,
                       IF prog[i].h = "context" THEN Append(cv, r.v) ELSE cv))
             : r \in {CreationHook(W, c, prog[i])}})
    ELSE The({The({
             (RunHooks([W1 EXCEPT !.comps[c].supplied[i] = prog[i].deps],
                       c, creation, prog, i + 1, r.ix,
                       IF prog[i].h = "context" THEN Append(cv, r.v) ELSE cv))
             : W1 \in {IF prog[i].h \in {"memo", "effect", "layout", "handle"}
                       THEN [r.w EXCEPT !.trace = Append(@, DepsEvent(W, r.w, c, i, prog[i]))]
                       ELSE r.w}})
             : r \in {UpdateHook(W, c, prog[i], ix)}})

StateVals(W, c) == [i \in 1..Len(W.comps[c].data) |-> W.comps[c].data[i].value]

\* returns [w, out]: out the descriptor the component function returned
CallComponent(W, c, creation) ==
    The({The({The({
        ([w |-> Log(r.w, "rendered", c, 0), out |-> Output(fn, p, sv, r.cv)])
        : r \in {RunHooks(W1, c, creation, Program(fn, p, sv), 1, [s |-> 0, e |-> 0, c |-> 0], <<>>)}})
        : sv \in {IF creation THEN InitVals(fn) ELSE StateVals(W, c)},
          W1 \in {Log(W, "render", c, IF creation THEN 0 ELSE 1)}})
        : fn \in {W.comps[c].config.tag},
          p \in {W.comps[c].config.val}})

-----------------------------------------------------------------------------
(* Virtual nodes.  An optional array (T[] | undefined) is [has, s].        *)

None == [has |-> FALSE, s |-> <<>>]

Some(s) == [has |-> TRUE, s |-> s]

VNone == [t |-> "None"]

VNull(node) == [t |-> "Null", node |-> node]

VText(node, config) == [t |-> "Text", node |-> node, config |-> config]

VElem(node, config, attributes, children) ==
    [t |-> "Element", node |-> node, config |-> config, attributes |-> attributes,
     children |-> children]

\* node = 0 is `undefined`: the fragment has children instead of a marker
VFrag(config, node, children) ==
    [t |-> "Fragment", config |-> config, node |-> node, children |-> children]

VComp(id) == [t |-> "Component", id |-> id]

VProv(id) == [t |-> "Provider", id |-> id]

Ctx(depth, providers) == [depth |-> depth, providers |-> providers]

RECURSIVE SortByName(_)
SortByName(S) ==
    IF S = {} THEN <<>>
    ELSE The({
             (<<m>> \o SortByName(S \ {m}))
             : m \in {CHOOSE e \in S : \A f \in S : e.name <= f.name}})

getAttributes_KeepUndefined(props) ==
    The({
        (IF Len(attributes) > 0 THEN Some(attributes) ELSE None)
        : attributes \in {SortByName(props)}})

getAttributes(props) ==
    The({
        (IF Len(attributes) > 0 THEN Some(attributes) ELSE None)
        : attributes \in {SortByName({e \in props : e.value # Undefined})}})

RECURSIVE getFirstNode(_, _)
getFirstNode(W, v) ==
    CASE v.t \in {"Null", "Text", "Element"} -> v.node
      [] v.t = "Fragment" -> IF v.node # 0 THEN v.node ELSE getFirstNode(W, v.children.s[1])
      [] v.t = "Component" -> getFirstNode(W, W.comps[v.id].child)
      [] v.t = "Provider" -> getFirstNode(W, W.provs[v.id].child)

RECURSIVE getLastNode(_, _)
getLastNode(W, v) ==
    CASE v.t \in {"Null", "Text", "Element"} -> v.node
      [] v.t = "Fragment" -> IF v.node # 0 THEN v.node ELSE getLastNode(W, Last(v.children.s))
      [] v.t = "Component" -> getLastNode(W, W.comps[v.id].child)
      [] v.t = "Provider" -> getLastNode(W, W.provs[v.id].child)

\* the host nodes a DocumentFragment built by getNodeForInsertion carries
RECURSIVE getNodeForInsertion(_, _)
getNodeForInsertion(W, v) ==
    LET RECURSIVE Cat(_, _)
        Cat(vs, i) == IF i > Len(vs) THEN <<>>
                      ELSE getNodeForInsertion(W, vs[i]) \o Cat(vs, i + 1)
    IN  CASE v.t \in {"Null", "Text", "Element"} -> <<v.node>>
          [] v.t = "Fragment" -> IF v.node # 0 THEN <<v.node>> ELSE Cat(v.children.s, 1)
          [] v.t = "Component" -> getNodeForInsertion(W, W.comps[v.id].child)
          [] v.t = "Provider" -> getNodeForInsertion(W, W.provs[v.id].child)
          [] OTHER -> <<>>

-----------------------------------------------------------------------------
(* Unmount and replaceWith of every node variant *)

RECURSIVE Unmount(_, _)
RECURSIVE ReplaceWith(_, _, _)
RECURSIVE UnmountEach(_, _, _)
RECURSIVE FragmentNode_unmount(_, _)
RECURSIVE FragmentNode_replaceWith(_, _, _)
RECURSIVE ComponentNode_unmount(_, _)
RECURSIVE ComponentNode_replaceWith(_, _, _)

\* children.forEach(c => c.unmount()), from position i on
UnmountEach(W, vs, i) ==
    IF i > Len(vs) \/ W.err THEN W ELSE UnmountEach(Unmount(W, vs[i]), vs, i + 1)

SingleNodeVNode_unmount(W, v) == DomRemove(W, v.node)

\* ElementNode defines no unmount: it inherits SingleNodeVNode's
ElementNode_unmount(W, v) == SingleNodeVNode_unmount(W, v)

ElementNode_replaceWith(W, v, ins) ==
    DomReplaceWith(UnmountEach(W, v.children.s, 1), v.node, ins)

FragmentNode_unmount(W, v) ==
    IF v.node # 0 THEN DomRemove(W, v.node) ELSE UnmountEach(W, v.children.s, 1)

FragmentNode_replaceWith(W, v, ins) ==
    IF v.node # 0 THEN DomReplaceWith(W, v.node, ins)
    ELSE UnmountEach(ReplaceWith(W, v.children.s[1], ins), v.children.s, 2)

ComponentNode_unmount_NoCleanup(W, c) == Unmount(W, W.comps[c].child)

ComponentNode_unmount_ChildFirst(W, c) == cleanup(Unmount(W, W.comps[c].child), c)

ComponentNode_unmount(W, c) == Unmount(cleanup(W, c), W.comps[c].child)

ComponentNode_replaceWith_ChildFirst(W, c, ins) ==
    cleanup(ReplaceWith(W, W.comps[c].child, ins), c)

ComponentNode_replaceWith(W, c, ins) == ReplaceWith(cleanup(W, c), W.comps[c].child, ins)

Unmount(W, v) ==
    IF W.err THEN W
    ELSE CASE v.t \in {"Null", "Text"} -> SingleNodeVNode_unmount(W, v)
           [] v.t = "Element" -> ElementNode_unmount(W, v)
           [] v.t = "Fragment" -> FragmentNode_unmount(W, v)
           [] v.t = "Component" -> ComponentNode_unmount(W, v.id)
           [] v.t = "Provider" -> Unmount(W, W.provs[v.id].child)

ReplaceWith(W, v, ins) ==
    IF W.err THEN W
    ELSE CASE v.t \in {"Null", "Text"} -> DomReplaceWith(W, v.node, ins)
           [] v.t = "Element" -> ElementNode_replaceWith(W, v, ins)
           [] v.t = "Fragment" -> FragmentNode_replaceWith(W, v, ins)
           [] v.t = "Component" -> ComponentNode_replaceWith(W, v.id, ins)
           [] v.t = "Provider" -> ReplaceWith(W, W.provs[v.id].child, ins)

-----------------------------------------------------------------------------
(* Creation and reconciliation.  Every operator returns [w, v]: the world  *)
(* after it and the virtual node its holder now refers to.  Once an error  *)
(* is thrown (W.err) the rest of the task is skipped; what was mutated in  *)
(* place before the throw stays mutated.                                   *)

RECURSIVE createVNode(_, _, _)
RECURSIVE updateVNode(_, _, _, _)
RECURSIVE createChildNodesFrom(_, _, _, _, _)
RECURSIVE addEach(_, _, _, _, _)
RECURSIVE removeEach(_, _, _, _)
RECURSIVE merge(_, _, _, _, _, _, _)
RECURSIVE diffEach(_, _, _, _, _)
RECURSIVE appendNew(_, _, _, _, _, _, _)
RECURSIVE insertNew(_, _, _, _, _, _)
RECURSIVE createChildNodes(_, _, _)
RECURSIVE ElementNode_addAttribute(_, _, _, _)
RECURSIVE ElementNode_addAllAttributes(_, _, _, _)
RECURSIVE ElementNode_updateAttribute(_, _, _, _, _)
RECURSIVE ElementNode_update(_, _, _, _)
RECURSIVE NewElementNode(_, _, _)
RECURSIVE NewFragmentNode(_, _, _)
RECURSIVE FragmentNode_update(_, _, _, _)
RECURSIVE NewComponentNode(_, _, _)
RECURSIVE ComponentNode_update(_, _, _)
RECURSIVE NewProviderNode(_, _, _)
RECURSIVE ProviderNode_update(_, _, _)

\* configs.map(config => createVNode(config, context)), from position i on
createChildNodesFrom(W, configs, context, i, acc) ==
    IF i > Len(configs) \/ W.err THEN [w |-> W, vs |-> acc]
    ELSE The({
             (createChildNodesFrom(r.w, configs, context, i + 1, Append(acc, r.v)))
             : r \in {createVNode(W, configs[i], context)}})

createChildNodes(W, configs, context) == createChildNodesFrom(W, configs, context, 1, <<>>)

RECURSIVE AppendEach(_, _, _, _)
AppendEach(W, node, vs, i) ==
    IF i > Len(vs) THEN W
    ELSE AppendEach(DomAppend(W, node, getNodeForInsertion(W, vs[i])), node, vs, i + 1)

RECURSIVE InsertEachBefore(_, _, _, _, _)
InsertEachBefore(W, parent, vs, ref, i) ==
    IF i > Len(vs) THEN W
    ELSE InsertEachBefore(DomInsertBefore(W, parent, getNodeForInsertion(W, vs[i]), ref),
                          parent, vs, ref, i + 1)

\* children.pop()!.unmount() while more than n are left; u counts the unmounts
RECURSIVE popUnmount(_, _, _, _)
popUnmount(W, children, n, u) ==
    IF Len(children) <= n \/ W.err THEN [w |-> W, children |-> children, u |-> u]
    ELSE popUnmount(Unmount(W, Last(children)), Front(children), n, u + 1)

\* children[i] = updateVNode(children[i], configs[i], context) for the common prefix
diffEach(W, children, configs, context, i) ==
    IF i > Len(children) \/ i > Len(configs) \/ W.err
    THEN [w |-> W, children |-> children, d |-> i - 1]
    ELSE The({
             (diffEach(r.w, [children EXCEPT ![i] = r.v], configs, context, i + 1))
             : r \in {updateVNode(W, children[i], configs[i], context)}})

\* what one positional reconciliation did: m old children, n descriptors
Positional(W, kind, m, n, d, c, u, after, configs) ==
    [W EXCEPT !.trace = Append(@, [e |-> "positional", a |-> m, b |-> n, kind |-> kind,
                                   diffs |-> d, creations |-> c, unmounts |-> u,
                                   after |-> after, configs |-> configs])]

-----------------------------------------------------------------------------
(* ElementNode *)

ElementNode_addAttribute(W, v, entry, context) ==
    IF entry.name = NameChildren
    THEN The({
             (IF r.w.err THEN [w |-> r.w, v |-> v]
              ELSE [w |-> AppendEach(r.w, v.node, r.vs, 1), v |-> [v EXCEPT !.children = Some(r.vs)]])
             : r \in {createChildNodes(W, entry.kids, context)}})
    ELSE IF entry.name = NameRef
    THEN [w |-> Log([W EXCEPT !.refs[entry.value] = v.node], "ref", entry.value, v.node), v |-> v]
    ELSE [w |-> DomSetProp(W, v.node, entry.name, entry.value), v |-> v]

addEach(W, v, attributes, context, i) ==
    IF i > Len(attributes) \/ W.err THEN [w |-> W, v |-> v]
    ELSE The({
             (addEach(r.w, r.v, attributes, context, i + 1))
             : r \in {ElementNode_addAttribute(W, v, attributes[i], context)}})

ElementNode_addAllAttributes(W, v, props, context) ==
    The({
        (addEach(W, [v EXCEPT !.attributes = attributes], attributes.s, context, 1))
        : attributes \in {getAttributes(props)}})

\* h.ts:209 assigns through `node`, an identifier the method never declares:
\* the assignment throws a ReferenceError, or writes to a global of that name
\* if the page defines one (globalNode); the element's property stays set
ElementNode_removeAttribute(W, v, entry) ==
    IF entry.name = NameChildren
    THEN IF ~v.children.has THEN [w |-> W, v |-> v]
         ELSE [w |-> UnmountEach(W, v.children.s, 1), v |-> [v EXCEPT !.children = None]]
    ELSE IF entry.name = NameRef
    THEN [w |-> Log([W EXCEPT !.refs[entry.value] = 0], "ref", entry.value, 0), v |-> v]
    ELSE IF W.globalNode THEN [w |-> Log(W, "globalSet", entry.name, 0), v |-> v]
    ELSE [w |-> Throw(W), v |-> v]

removeEach(W, v, attributes, i) ==
    IF i > Len(attributes) \/ W.err THEN [w |-> W, v |-> v]
    ELSE The({
             (removeEach(r.w, r.v, attributes, i + 1))
             : r \in {ElementNode_removeAttribute(W, v, attributes[i])}})

ElementNode_removeAllAttributes(W, v) ==
    IF ~v.attributes.has THEN [w |-> W, v |-> v]
    ELSE removeEach(W, [v EXCEPT !.attributes = None], v.attributes.s, 1)

\* this.node.appendChild(createVNode(configs[i], context)...) for the surplus descriptors
appendNew(W, node, children, configs, context, i, c) ==
    IF i > Len(configs) \/ W.err THEN [w |-> W, children |-> children, c |-> c]
    ELSE The({
             (IF r.w.err THEN [w |-> r.w, children |-> children, c |-> c]
              ELSE appendNew(DomAppend(r.w, node, getNodeForInsertion(r.w, r.v)), node,
                             Append(children, r.v), configs, context, i + 1, c + 1))
             : r \in {createVNode(W, configs[i], context)}})

ElementNode_updateAttribute(W, v, old, new, context) ==
    IF new.name = NameChildren
    THEN The({The({The({The({
             (IF r3.w.err
              THEN [w |-> r3.w,
                    v |-> IF v.children.has THEN [v EXCEPT !.children = Some(r3.children)] ELSE v]
              ELSE [w |-> Positional(r3.w, "Element", Len(children), Len(configs),
                                     r1.d, r3.c, r2.u, r3.children, configs),
                    v |-> [v EXCEPT !.children =
                              IF Len(r3.children) > 0 THEN Some(r3.children) ELSE None]])
             : r3 \in {appendNew(r2.w, v.node, r2.children, configs, context, r1.d + 1, 0)}})
             : r2 \in {popUnmount(r1.w, r1.children, Len(configs), 0)}})
             : r1 \in {diffEach(W, children, configs, context, 1)}})
             : configs \in {new.kids},
               children \in {v.children.s}})
    ELSE IF new.name = NameRef
    THEN The({
             (IF r.w.err THEN r ELSE ElementNode_addAttribute(r.w, r.v, new, context))
             : r \in {ElementNode_removeAttribute(W, v, old)}})
    ELSE [w |-> DomSetProp(W, v.node, new.name, new.value), v |-> v]

EntryNeq(old, new) ==
    IF old.name = NameChildren THEN ~SameRef(old.value, new.value)
    ELSE StrictNeq(old.value, new.value)

\* the two-pointer merge of h.ts:141-166; o and n are 0-based as in the source
merge(W, v, oldAttributes, newAttributes, context, o, n) ==
    IF W.err THEN [w |-> W, v |-> v]
    ELSE IF o < Len(oldAttributes) /\ n < Len(newAttributes)
    THEN The({
             (IF old.name < new.name
              THEN The({
                       (merge(r.w, r.v, oldAttributes, newAttributes, context, o + 1, n))
                       : r \in {ElementNode_removeAttribute(W, v, old)}})
              ELSE IF old.name > new.name
              THEN The({
                       (merge(r.w, r.v, oldAttributes, newAttributes, context, o, n + 1))
                       : r \in {ElementNode_addAttribute(W, v, new, context)}})
              ELSE The({
                       (merge(r.w, r.v, oldAttributes, newAttributes, context, o + 1, n + 1))
                       : r \in {IF EntryNeq(old, new)
                                THEN ElementNode_updateAttribute(W, v, old, new, context)
                                ELSE [w |-> W, v |-> v]}}))
             : old \in {oldAttributes[o + 1]},
               new \in {newAttributes[n + 1]}})
    ELSE IF o < Len(oldAttributes)
    THEN The({
             (merge(r.w, r.v, oldAttributes, newAttributes, context, o + 1, n))
             : r \in {ElementNode_removeAttribute(W, v, oldAttributes[o + 1])}})
    ELSE IF n < Len(newAttributes)
    THEN The({
             (merge(r.w, r.v, oldAttributes, newAttributes, context, o, n + 1))
             : r \in {ElementNode_addAttribute(W, v, newAttributes[n + 1], context)}})
    ELSE [w |-> W, v |-> v]

UpdEnd(r, id) == [w |-> Log(r.w, "E.updated", id, 0), v |-> r.v]

ElementNode_update_NoShortCircuit(W, v, config, context) ==
    The({
        (UpdEnd(IF ~newAttributes.has THEN ElementNode_removeAllAttributes(W1, v1)
                ELSE IF ~oldAttributes.has
                THEN ElementNode_addAllAttributes(W1, v1, config.props, context)
                ELSE merge(W1, v1, oldAttributes.s, newAttributes.s, context, 0, 0),
                v.node))
        : v1 \in {[v EXCEPT !.config = config]},
          oldAttributes \in {v.attributes},
          newAttributes \in {getAttributes(config.props)},
          W1 \in {Log(W, "E.update", v.node, IF SameRef(config.pid, v.config.pid) THEN 1 ELSE 0)}})

ElementNode_update(W, v, config, context) ==
    The({The({
        (UpdEnd(IF same THEN [w |-> W1, v |-> v]
                ELSE IF ~newAttributes.has THEN ElementNode_removeAllAttributes(W1, v1)
                ELSE IF ~oldAttributes.has
                THEN ElementNode_addAllAttributes(W1, v1, config.props, context)
                ELSE merge(W1, v1, oldAttributes.s, newAttributes.s, context, 0, 0),
                v.node))
        : W1 \in {Log(W, "E.update", v.node, IF same THEN 1 ELSE 0)}})
        : same \in {SameRef(config.pid, v.config.pid)},
          v1 \in {[v EXCEPT !.config = config]},
          oldAttributes \in {v.attributes},
          newAttributes \in {getAttributes(config.props)}})

\* ElementNode's constructor
NewElementNode(W, config, context) ==
    The({
        (ElementNode_addAllAttributes(W1, VElem(Len(W1.dom), config, None, None),
                                      config.props, context))
        : W1 \in {NewHostNode(W, "elem", "")}})

-----------------------------------------------------------------------------
(* FragmentNode *)

\* FragmentNode's constructor
NewFragmentNode(W, config, context) ==
    IF Len(config) > 0
    THEN The({
             ([w |-> r.w, v |-> VFrag(config, 0, Some(r.vs))])
             : r \in {createChildNodes(W, config, context)}})
    ELSE The({
             ([w |-> W1, v |-> VFrag(config, Len(W1.dom), None)])
             : W1 \in {NewHostNode(W, "comment", "")}})

\* h.ts:316-323: each surplus descriptor is created and inserted after the last node
insertNew(W, children, configs, context, i, c) ==
    IF i > Len(configs) \/ W.err THEN [w |-> W, children |-> children, c |-> c]
    ELSE The({The({The({
             (IF r.w.err THEN [w |-> r.w, children |-> children, c |-> c]
              ELSE insertNew(W1, Append(children, r.v), configs, context, i + 1, c + 1))
             : W1 \in {IF parent = 0 THEN r.w
                       ELSE IF next # 0 THEN DomInsertBefore(r.w, parent, ins, next)
                       ELSE DomAppend(r.w, parent, ins)}})
             : parent \in {parentNode(r.w.dom, lastNode)},
               next \in {nextSibling(r.w.dom, lastNode)},
               ins \in {getNodeForInsertion(r.w, r.v)}})
             : lastNode \in {getLastNode(W, Last(children))},
               r \in {createVNode(W, configs[i], context)}})

\* the update the dead branch of h.ts:324-332 describes: a fragment that becomes empty
FragmentNode_update_Emptying(W, v, configs, context) ==
    IF v.children.has /\ Len(configs) = 0
    THEN The({The({The({
             ([w |-> Positional(W2, "Fragment", Len(v.children.s), 0, 0, 0,
                                Len(v.children.s), <<>>, configs),
               v |-> [v EXCEPT !.children = None, !.node = node]])
             : W2 \in {UnmountEach(ReplaceWith(W1, v.children.s[1], <<node>>), v.children.s, 2)}})
             : node \in {Len(W1.dom)}})
             : W1 \in {NewHostNode(W, "comment", "")}})
    ELSE [w |-> W, v |-> v]

FragmentNode_update(W, v, configs, context) ==
    IF v.children.has /\ Len(configs) > 0
    THEN IF Len(configs) > 0
         THEN The({The({The({The({
                  ([w |-> IF r3.w.err THEN r3.w
                          ELSE Positional(r3.w, "Fragment", Len(children), Len(configs),
                                          r1.d, r3.c, r2.u, r3.children, configs),
                    v |-> [v EXCEPT !.children = Some(r3.children)]])
                  : r3 \in {insertNew(r2.w, r2.children, configs, context, r1.d + 1, 0)}})
                  : r2 \in {popUnmount(r1.w, r1.children, Len(configs), 0)}})
                  : r1 \in {diffEach(W, children, configs, context, 1)}})
                  : children \in {v.children.s}})
         ELSE FragmentNode_update_Emptying(W, v, configs, context)
    ELSE IF Len(configs) > 0
    THEN The({The({The({
             (IF r.w.err THEN [w |-> r.w, v |-> v]
              ELSE [w |-> Positional(DomRemove(W1, node), "Fragment", 0, Len(configs),
                                     0, Len(r.vs), 0, r.vs, configs),
                    v |-> [v EXCEPT !.node = 0, !.children = Some(r.vs)]])
             : W1 \in {IF parent # 0 THEN InsertEachBefore(r.w, parent, r.vs, node, 1) ELSE r.w}})
             : parent \in {parentNode(r.w.dom, node)}})
             : node \in {v.node},
               r \in {createChildNodes(W, configs, context)}})
    ELSE [w |-> Positional(W, "Fragment", Len(v.children.s), 0, 0, 0, 0,
                           v.children.s, configs),
          v |-> v]

-----------------------------------------------------------------------------
(* ComponentNode *)

NewComponent(config, context) ==
    [config |-> config, depth |-> context.depth, providers |-> context.providers,
     dirty |-> FALSE, mounted |-> TRUE, data |-> <<>>, effects |-> <<>>,
     contexts |-> <<>>, child |-> VNone, supplied |-> <<>>]

\* ComponentNode's constructor
NewComponentNode(W, config, context) ==
    The({The({The({The({
        ([w |-> [k.w EXCEPT !.hooks = 0,
                            !.comps[c].child = IF k.w.err THEN @ ELSE k.v],
          v |-> VComp(c)])
        : k \in {createVNode(r.w, r.out, Ctx(context.depth + 1, context.providers))}})
        : r \in {CallComponent(W1, c, TRUE)}})
        : W1 \in {[W EXCEPT !.comps = Append(@, NewComponent(config, context)), !.hooks = c]}})
        : c \in {Len(W.comps) + 1}})

ComponentNode_rerender_KeepsDirty(W, c) ==
    The({The({The({The({
        (IF r.w.err THEN r.w ELSE [k.w EXCEPT !.comps[c].child = k.v])
        : k \in {updateVNode(W2, W2.comps[c].child, r.out,
                             Ctx(W2.comps[c].depth + 1, W2.comps[c].providers))}})
        : W2 \in {[r.w EXCEPT !.hooks = IF r.w.err THEN @ ELSE 0]}})
        : r \in {CallComponent(W1, c, FALSE)}})
        : W1 \in {[W EXCEPT !.hooks = c]}})

ComponentNode_rerender(W, c) ==
    The({The({The({The({
        (IF r.w.err THEN r.w ELSE [k.w EXCEPT !.comps[c].child = k.v])
        : k \in {updateVNode(W2, W2.comps[c].child, r.out,
                             Ctx(W2.comps[c].depth + 1, W2.comps[c].providers))}})
        : W2 \in {[r.w EXCEPT !.hooks = IF r.w.err THEN @ ELSE 0]}})
        : r \in {CallComponent(W1, c, FALSE)}})
        : W1 \in {[W EXCEPT !.comps[c].dirty = FALSE, !.hooks = c]}})

ComponentNode_update_NoShortCircuit(W, c, config) ==
    Log(ComponentNode_rerender(
            Log([W EXCEPT !.comps[c].config = config], "C.update", c,
                IF SameRef(config.pid, W.comps[c].config.pid) THEN 1 ELSE 0), c),
        "C.updated", c, 0)

ComponentNode_update(W, c, config) ==
    The({The({
        (Log(IF same THEN W1
             ELSE ComponentNode_rerender([W1 EXCEPT !.comps[c].config = config], c),
             "C.updated", c, 0))
        : W1 \in {Log(W, "C.update", c, IF same THEN 1 ELSE 0)}})
        : same \in {SameRef(config.pid, W.comps[c].config.pid)}})

-----------------------------------------------------------------------------
(* ProviderNode *)

\* ProviderNode's constructor
NewProviderNode(W, config, context) ==
    The({The({The({The({
        ([w |-> [r.w EXCEPT !.provs[p].child = r.v], v |-> VProv(p)])
        : r \in {NewFragmentNode(W1, config.kids, own)}})
        : W1 \in {[W EXCEPT !.provs = Append(@, [config |-> config, subscribers |-> <<>>,
                                                 context |-> own, child |-> VNone])]}})
        : own \in {Ctx(context.depth, [context.providers EXCEPT ![config.tok] = p])}})
        : p \in {Len(W.provs) + 1}})

RECURSIVE NotifyEach(_, _, _)
NotifyEach(W, subs, i) ==
    IF i > Len(subs) THEN W
    ELSE NotifyEach(requestComponentRerender(W, subs[i]), subs, i + 1)

\* the scheduler's state once the subscribers have been told (after h.ts:467)
Notified(W0, W, p, changed) ==
    [W EXCEPT !.trace = Append(@, [e |-> "provNotified", a |-> p,
                                   b |-> IF changed THEN 1 ELSE 0,
                                   subs |-> Range(W.provs[p].subscribers),
                                   dirtyB |-> DirtySet(W0), dirtyA |-> DirtySet(W),
                                   queueB |-> W0.updateQueue, queueA |-> W.updateQueue])]

ProviderNode_update_NoNotify(W, p, config) ==
    The({The({The({
        (IF SameRef(config.cid, W.provs[p].config.cid) THEN Log(W1, "P.updated", p, 0)
         ELSE Log([r.w EXCEPT !.provs[p].child = r.v], "P.updated", p, 0))
        : r \in {FragmentNode_update([W2 EXCEPT !.provs[p].config = config],
                                     W2.provs[p].child, config.kids, W2.provs[p].context)}})
        : W2 \in {Notified(W1, W1, p, changed)}})
        : changed \in {StrictNeq(config.val, W.provs[p].config.val)},
          W1 \in {Log(W, "P.update", p, IF SameRef(config.pid, W.provs[p].config.pid) THEN 1 ELSE 0)}})

ProviderNode_update_StoresLate(W, p, config) ==
    The({The({The({
        (IF SameRef(config.cid, W.provs[p].config.cid) THEN Log(W1, "P.updated", p, 0)
         ELSE Log([r.w EXCEPT !.provs[p].child = r.v, !.provs[p].config = config],
                  "P.updated", p, 0))
        : r \in {FragmentNode_update(W2, W2.provs[p].child, config.kids, W2.provs[p].context)}})
        : W2 \in {Notified(W1, IF changed THEN NotifyEach(W1, W1.provs[p].subscribers, 1) ELSE W1,
                           p, changed)}})
        : changed \in {StrictNeq(config.val, W.provs[p].config.val)},
          W1 \in {Log(W, "P.update", p, IF SameRef(config.pid, W.provs[p].config.pid) THEN 1 ELSE 0)}})

ProviderNode_update(W, p, config) ==
    The({The({The({
        (IF SameRef(config.cid, W.provs[p].config.cid) THEN Log(W1, "P.updated", p, 0)
         ELSE Log([r.w EXCEPT !.provs[p].child = r.v], "P.updated", p, 0))
        : r \in {FragmentNode_update([W2 EXCEPT !.provs[p].config = config],
                                     W2.provs[p].child, config.kids, W2.provs[p].context)}})
        : W2 \in {Notified(W1, IF changed THEN NotifyEach(W1, W1.provs[p].subscribers, 1) ELSE W1,
                           p, changed)}})
        : changed \in {StrictNeq(config.val, W.provs[p].config.val)},
          W1 \in {Log(W, "P.update", p, IF SameRef(config.pid, W.provs[p].config.pid) THEN 1 ELSE 0)}})

-----------------------------------------------------------------------------
(* createVNode and updateVNode *)

\* String(config) of a number
String(config) == ToString(config)

NewNullNode(W) ==
    The({
        ([w |-> W1, v |-> VNull(Len(W1.dom))])
        : W1 \in {NewHostNode(W, "comment", "")}})

NewTextNode(W, config) ==
    The({
        ([w |-> W1, v |-> VText(Len(W1.dom), config.val)])
        : W1 \in {NewHostNode(W, "text", String(config.val))}})

TextNode_update(W, v, config) ==
    IF StrictNeq(config.val, v.config)
    THEN [w |-> DomSetText(W, v.node, String(config.val)), v |-> [v EXCEPT !.config = config.val]]
    ELSE [w |-> W, v |-> v]

createVNode(W, config, context) ==
    IF W.err THEN [w |-> W, v |-> VNone]
    ELSE CASE config.k = "null" -> NewNullNode(W)
           [] config.k = "frag" -> NewFragmentNode(W, config.kids, context)
           [] config.k = "elem" -> NewElementNode(W, config, context)
           [] config.k = "comp" -> NewComponentNode(W, config, context)
           [] config.k = "prov" -> NewProviderNode(W, config, context)
           [] config.k = "text" -> NewTextNode(W, config)

\* vnode.replaceWith(created.getNodeForInsertion()); return created
Replace(W, v, r) ==
    IF r.w.err THEN [w |-> r.w, v |-> v]
    ELSE [w |-> ReplaceWith(r.w, v, getNodeForInsertion(r.w, r.v)), v |-> r.v]

updateVNode(W, v, config, context) ==
    IF W.err THEN [w |-> W, v |-> v]
    ELSE CASE config.k = "null" ->
                IF v.t = "Null" THEN [w |-> W, v |-> v] ELSE Replace(W, v, NewNullNode(W))
           [] config.k = "frag" ->
                IF v.t = "Fragment" THEN FragmentNode_update(W, v, config.kids, context)
                ELSE Replace(W, v, NewFragmentNode(W, config.kids, context))
           [] config.k = "elem" ->
                IF v.t = "Element" /\ v.config.tag = config.tag
                THEN ElementNode_update(W, v, config, context)
                ELSE Replace(W, v, NewElementNode(W, config, context))
           [] config.k = "comp" ->
                IF v.t = "Component" /\ W.comps[v.id].config.tag = config.tag
                THEN [w |-> ComponentNode_update(W, v.id, config), v |-> v]
                ELSE Replace(W, v, NewComponentNode(W, config, context))
           [] config.k = "prov" ->
                IF v.t = "Provider" /\ W.provs[v.id].config.tok = config.tok
                THEN [w |-> ProviderNode_update(W, v.id, config), v |-> v]
                ELSE Replace(W, v, NewProviderNode(W, config, context))
           [] config.k = "text" ->
                IF v.t = "Text" THEN TextNode_update(W, v, config)
                ELSE Replace(W, v, NewTextNode(W, config))

-----------------------------------------------------------------------------
(* The state machine *)

RefIds == {1, 2}

World ==
    [comps |-> comps, provs |-> provs, dom |-> dom, updateQueue |-> updateQueue,
     effects |-> effects, layoutEffects |-> layoutEffects, microtasks |-> microtasks,
     rafs |-> rafs, hooks |-> hooks, invoked |-> invoked, globalNode |-> globalNode,
     refs |-> refs, trace |-> <<>>, err |-> FALSE]

Commit(W) ==
    /\ comps' = W.comps
    /\ provs' = W.provs
    /\ dom' = W.dom
    /\ updateQueue' = W.updateQueue
    /\ effects' = W.effects
    /\ layoutEffects' = W.layoutEffects
    /\ microtasks' = W.microtasks
    /\ rafs' = W.rafs
    /\ hooks' = W.hooks
    /\ invoked' = W.invoked
    /\ refs' = W.refs
    /\ trace' = W.trace
    /\ UNCHANGED <<app, globalNode>>

InitApp(a) ==
    /\ app = a
    /\ root = VNone
    /\ comps = <<>>
    /\ provs = <<>>
    /\ dom = <<[kind |-> "container", text |-> "", kids |-> <<>>,
                props |-> [n \in OrdNames |-> Unset]]>>
    /\ updateQueue = <<>>
    /\ effects = <<>>
    /\ layoutEffects = <<>>
    /\ microtasks = 0
    /\ rafs = 0
    /\ hooks = 0
    /\ pc = "init"
    /\ invoked = <<>>
    /\ globalNode \in (IF a = "attrs" THEN BOOLEAN ELSE {FALSE})
    /\ refs = [r \in RefIds |-> 0]
    /\ clicks = 0
    /\ trace = <<>>

\* renderLoop's entry test and the test after the layout effects (h.ts:694)
EnterRenderLoop(W) == IF Len(W.updateQueue) > 0 THEN "inner" ELSE "idle"

\* an error thrown by a task ends the task
Position(W, next) == IF W.err THEN "idle" ELSE next

\* mount(config, element): creation and appendChild; then runLayoutEffects and
\* renderLoop, which the following steps carry out
mount ==
    /\ pc = "init"
    /\ \E r \in {createVNode(World, RootConfig(app), Ctx(0, NoProviders))} :
       \E W1 \in {IF r.w.err THEN r.w ELSE DomAppend(r.w, 1, getNodeForInsertion(r.w, r.v))} :
           /\ Commit(W1)
           /\ root' = r.v
           /\ pc' = Position(W1, IF Len(W1.layoutEffects) > 0 THEN "mountLayout"
                                 ELSE EnterRenderLoop(W1))
    /\ UNCHANGED clicks

\* layoutEffects.pop()!(): one iteration of h.ts:738-741 or h.ts:702-705
PopLayoutEffect(W) ==
    RunClosure(Log([W EXCEPT !.layoutEffects = Front(@)], "layoutEffect", 0, 0),
               Last(W.layoutEffects))

\* a mount that flushes the layout effects and returns without the drain loop
runLayoutEffects_NoDrain ==
    /\ pc = "mountLayout"
    /\ \E W1 \in {PopLayoutEffect(World)} :
           /\ Commit(W1)
           /\ pc' = Position(W1, IF Len(W1.layoutEffects) > 0 THEN "mountLayout" ELSE "idle")
    /\ UNCHANGED <<root, clicks>>

runLayoutEffects ==
    /\ pc = "mountLayout"
    /\ \E W1 \in {PopLayoutEffect(World)} :
           /\ Commit(W1)
           /\ pc' = Position(W1, IF Len(W1.layoutEffects) > 0 THEN "mountLayout"
                                 ELSE EnterRenderLoop(W1))
    /\ UNCHANGED <<root, clicks>>

\* An event handler (or a timer: any code outside a render) calls the setter of
\* a state cell.  A handler may call several setters before it returns: calls
\* made while a drain is still queued as a microtask belong to one task.
Click(c, slot, v) ==
    /\ pc = "idle"
    /\ clicks < MaxClicks
    /\ comps[c].data[slot].kind = "state"
    /\ Commit(Log(Setter(Log(World, "click", c, slot), c, slot, v), "clicked", c, slot))
    /\ clicks' = clicks + 1
    /\ UNCHANGED <<root, pc>>

\* the microtask queued by requestComponentRerender runs renderLoop
renderLoop ==
    /\ pc = "idle"
    /\ microtasks > 0
    /\ Commit(Log([World EXCEPT !.microtasks = @ - 1], "renderLoop", 0, 0))
    /\ pc' = EnterRenderLoop(World)
    /\ UNCHANGED <<root, clicks>>

\* one iteration of the do-while of h.ts:695-700
renderLoopPop_NoFlagCheck(W) ==
    The({The({
        (ComponentNode_rerender(Log(W1, "schedRender", r.node, 0), r.node))
        : W1 \in {Log([W EXCEPT !.updateQueue = r.queue], "dequeue", r.node, 0)}})
        : r \in {dequeueNode(W, W.updateQueue)}})

renderLoopPop(W) ==
    The({The({
        (IF W1.comps[r.node].dirty /\ W1.comps[r.node].mounted
         THEN ComponentNode_rerender(Log(W1, "schedRender", r.node, 0), r.node)
         ELSE W1)
        : W1 \in {Log([W EXCEPT !.updateQueue = r.queue], "dequeue", r.node, 0)}})
        : r \in {dequeueNode(W, W.updateQueue)}})

\* a drain loop that catches what a re-render throws and goes on
DrainPop_CatchesError ==
    /\ pc = "inner"
    /\ \E W1 \in {renderLoopPop(World)} :
           /\ Commit(W1)
           /\ pc' = IF Len(W1.updateQueue) > 0 THEN "inner"
                    ELSE IF Len(W1.layoutEffects) > 0 THEN "layout"
                    ELSE "idle"
    /\ UNCHANGED <<root, clicks>>

\* the root is a plain value here: a re-render of the root component keeps it
DrainPop ==
    /\ pc = "inner"
    /\ \E W1 \in {renderLoopPop(World)} :
           /\ Commit(W1)
           /\ pc' = Position(W1, IF Len(W1.updateQueue) > 0 THEN "inner"
                                 ELSE IF Len(W1.layoutEffects) > 0 THEN "layout"
                                 ELSE "idle")
    /\ UNCHANGED <<root, clicks>>

\* a drain loop that returns after the layout effects without looking at the heap
DrainLayout_NoLoop ==
    /\ pc = "layout"
    /\ \E W1 \in {PopLayoutEffect(World)} :
           /\ Commit(W1)
           /\ pc' = Position(W1, IF Len(W1.layoutEffects) > 0 THEN "layout" ELSE "idle")
    /\ UNCHANGED <<root, clicks>>

DrainLayout ==
    /\ pc = "layout"
    /\ \E W1 \in {PopLayoutEffect(World)} :
           /\ Commit(W1)
           /\ pc' = Position(W1, IF Len(W1.layoutEffects) > 0 THEN "layout"
                                 ELSE EnterRenderLoop(W1))
    /\ UNCHANGED <<root, clicks>>

\* the animation-frame callback of h.ts:722-727 starts
AnimationFrame ==
    /\ pc = "idle"
    /\ microtasks = 0
    /\ rafs > 0
    /\ Commit(Log([World EXCEPT !.rafs = @ - 1], "animationFrame", 0, 0))
    /\ pc' = IF Len(effects) > 0 THEN "flush" ELSE "idle"
    /\ UNCHANGED <<root, clicks>>

\* a flush that runs the pending effects first-registered-first
FlushEffect_Fifo ==
    /\ pc = "flush"
    /\ \E W1 \in {RunClosure(Log([World EXCEPT !.effects = Tail(@)], "effect", 0, 0),
                             Head(effects))} :
           /\ Commit(W1)
           /\ pc' = Position(W1, IF Len(W1.effects) > 0 THEN "flush" ELSE "idle")
    /\ UNCHANGED <<root, clicks>>

\* effects.pop()!(): one iteration of h.ts:723-726
FlushEffect ==
    /\ pc = "flush"
    /\ \E W1 \in {RunClosure(Log([World EXCEPT !.effects = Front(@)], "effect", 0, 0),
                             Last(effects))} :
           /\ Commit(W1)
           /\ pc' = Position(W1, IF Len(W1.effects) > 0 THEN "flush" ELSE "idle")
    /\ UNCHANGED <<root, clicks>>

Clicks == \E c \in 1..Len(comps) : \E slot \in 1..Len(comps[c].data) : \E v \in Vals :
              Click(c, slot, v)

Init == \E a \in Apps : InitApp(a)

Next == mount \/ runLayoutEffects \/ Clicks \/ renderLoop \/ DrainPop \/ DrainLayout
        \/ AnimationFrame \/ FlushEffect

Spec == Init /\ [][Next]_vars

InitCtx == InitApp("ctx")

NextCtx == mount \/ Clicks \/ renderLoop \/ DrainPop

SpecCtx == InitCtx /\ [][NextCtx]_vars

InitUnmount == InitApp("unmount")

SpecUnmount == InitUnmount /\ [][Next]_vars

InitList == InitApp("list")

SpecList == InitList /\ [][NextCtx]_vars

InitAttrs == InitApp("attrs")

SpecAttrs == InitAttrs /\ [][NextCtx]_vars

InitDeps == InitApp("deps")

SpecDeps == InitDeps /\ [][Next]_vars

InitSubs == InitApp("subs")

SpecSubs == InitSubs /\ [][NextCtx]_vars

InitHandle == InitApp("handle")

SpecHandle == InitHandle /\ [][NextCtx]_vars

InitRef == InitApp("ref")

SpecRef == InitRef /\ [][NextCtx]_vars

InitFlush == InitApp("flush")

SpecFlush == InitFlush /\ [][Next]_vars

InitBatch == InitApp("batch")

SpecBatch == InitBatch /\ [][NextCtx]_vars

InitThrow == InitApp("throw")

NextThrow == mount \/ runLayoutEffects \/ Clicks \/ renderLoop \/ DrainPop \/ DrainLayout

SpecThrow == InitThrow /\ [][NextThrow]_vars

InitTree == InitApp("tree")

SpecTree == InitTree /\ [][Next]_vars

-----------------------------------------------------------------------------
(* Reading the log of the last step *)

\* event e about a happened
Happened(t, e, a) == \E i \in 1..Len(t) : t[i].e = e /\ t[i].a = a

\* event e about a with argument b happened
HappenedWith(t, e, a, b) == \E i \in 1..Len(t) : t[i].e = e /\ t[i].a = a /\ t[i].b = b

Count(s, x) == Cardinality({i \in 1..Len(s) : s[i] = x})

SetterCalls == {i \in 1..Len(trace) : trace[i].e = "setEnd"}

-----------------------------------------------------------------------------
(* C1 *)

\* what one call of a setter does to the cell and the scheduler
C1_SetterCall(ev) ==
    LET c == ev.a
        marks == StrictNeq(ev.old, ev.new) /\ ev.mounted /\ c \notin ev.dirtyB
    IN  /\ ev.stored = (IF StrictNeq(ev.old, ev.new) THEN ev.new ELSE ev.old)
        /\ ev.dirtyA = (IF marks THEN ev.dirtyB \cup {c} ELSE ev.dirtyB)
        /\ \A d \in Range(ev.queueA) \cup Range(ev.queueB) :
              Count(ev.queueA, d) = Count(ev.queueB, d) + (IF marks /\ d = c THEN 1 ELSE 0)
        /\ marks => c \in ev.dirtyA /\ c \in Range(ev.queueA)
        /\ ~marks => ev.queueA = ev.queueB
        /\ ev.microA = ev.microB + (IF marks /\ ev.queueB = <<>> THEN 1 ELSE 0)

\* the scheduler re-renders only a component that is dirty and mounted
C1_ScheduledOnlyIfMarked ==
    \A c \in 1..Len(comps) :
        Happened(trace', "schedRender", c) => comps[c].dirty /\ comps[c].mounted

\* C1 as the specification states it: a setter called on a mounted component
\* with a strictly unequal value stores the value, enqueues no other component,
\* and the marking it makes is answered by exactly one re-render that the
\* scheduler starts (the component's heap entry is popped and it re-renders);
\* a strictly equal value changes nothing.
C1_Original ==
    /\ [](\A i \in SetterCalls : C1_SetterCall(trace[i]))
    /\ [][ /\ C1_ScheduledOnlyIfMarked
           /\ \A c \in 1..Len(comps) :
                 (comps[c].dirty /\ ~comps'[c].dirty /\ comps'[c].mounted)
                     => Happened(trace', "schedRender", c) ]_vars

\* C1 (amended): a setter called with a strictly unequal value stores it; if
\* the component is mounted and not yet dirty the call marks it dirty, adds
\* exactly one heap entry for it and schedules a drain iff the heap was empty;
\* it enqueues no other component; with a strictly equal value it changes
\* nothing.  The scheduler re-renders the component at most once for that
\* marking: exactly once, unless its parent's patch re-rendered it or a
\* reconciliation unmounted it before its heap entry was popped.
C1_SetterSchedulesOneRerender ==
    /\ [](\A i \in SetterCalls : C1_SetterCall(trace[i]))
    /\ [][ /\ C1_ScheduledOnlyIfMarked
           /\ \A c \in 1..Len(comps) :
                 (comps[c].dirty /\ ~comps'[c].dirty)
                     => \/ Happened(trace', "schedRender", c)
                        \/ HappenedWith(trace', "C.update", c, 0)
                        \/ Happened(trace', "cleanupBegin", c) ]_vars

\* a setter called from a handler marked a clean mounted component while
\* another component was already queued
C1_Witness ==
    /\ pc = "idle"
    /\ \E i \in SetterCalls :
          /\ StrictNeq(trace[i].old, trace[i].new)
          /\ trace[i].mounted
          /\ trace[i].a \notin trace[i].dirtyB
          /\ trace[i].queueB # <<>>

-----------------------------------------------------------------------------
(* C2 *)

\* the events logged between the start of setter call i and its return
DuringSetterCall(t, i) ==
    LET end == CHOOSE j \in (i + 1)..Len(t) :
                   t[j].e = "setEnd" /\ \A k \in (i + 1)..(j - 1) : t[k].e # "setEnd"
    IN  {t[k] : k \in (i + 1)..(end - 1)}

\* C2: between the start and the return of a setter call, whether made by an
\* event handler, by an effect body or by a component function while it
\* renders, no component function is invoked; a component is re-rendered only
\* in an iteration of the drain loop.
C2_SetterNeverRendersInline ==
    /\ [](\A i \in 1..Len(trace) :
             trace[i].e = "setBegin" =>
                 \A ev \in DuringSetterCall(trace, i) : ev.e \notin {"render", "schedRender"})
    /\ [][\A i \in 1..Len(trace') :
             (trace'[i].e = "render" /\ trace'[i].b = 1) => pc = "inner"]_vars

\* a setter called by an effect body marked its component dirty
C2_Witness ==
    \E i, j \in 1..Len(trace) :
        /\ i < j
        /\ trace[i].e = "effectBody"
        /\ trace[j].e = "setEnd"
        /\ trace[j].a \in trace[j].dirtyA \ trace[j].dirtyB

-----------------------------------------------------------------------------
(* C3 *)

\* the dependency law the hooks document: the list is absent, or its length
\* differs, or some element differs positionally by strict inequality
DependenciesDiffer(prev, next) ==
    \/ ~prev.has
    \/ ~next.has
    \/ Len(prev.d) # Len(next.d)
    \/ \E i \in 1..Len(next.d) : StrictNeq(prev.d[i], next.d[i])

DepsCalls == {i \in 1..Len(trace) : trace[i].e = "deps"}

\* C3: on every re-render useMemo calls its producer, and useEffect and
\* useLayoutEffect hand their body to the scheduler, if and only if the
\* dependency list differs from the one supplied by the previous render at that
\* hook call (absent, other length, or some element strictly unequal); equal
\* lists recompute and re-run nothing.
C3_DependencyLaw ==
    \A i \in DepsCalls :
        (trace[i].ran > 0) <=> DependenciesDiffer(trace[i].prev, trace[i].next)

\* one re-render in which the memo's list grew and was recomputed, while the
\* layout effect's list was supplied unchanged and nothing was scheduled for it
C3_Witness ==
    \E i, j \in DepsCalls :
        /\ trace[i].h = "memo"
        /\ Len(trace[i].prev.d) < Len(trace[i].next.d)
        /\ trace[i].ran > 0
        /\ trace[j].h = "layout"
        /\ trace[j].prev.has
        /\ Len(trace[j].prev.d) = 2
        /\ trace[j].prev = trace[j].next
        /\ trace[j].ran = 0

-----------------------------------------------------------------------------
(* C4 *)

ProviderChanges == {i \in 1..Len(trace) : trace[i].e = "provNotified" /\ trace[i].b = 1}

\* the start of the ProviderNode.update call that logged event i
UpdateStart(t, i) ==
    CHOOSE j \in 1..(i - 1) :
        /\ t[j].e = "P.update" /\ t[j].a = t[i].a
        /\ \A k \in (j + 1)..(i - 1) : ~(t[k].e = "P.update" /\ t[k].a = t[i].a)

\* C4: when a Provider is updated with a strictly unequal value, every
\* component in its subscriber set is dirty and in the heap once the
\* subscribers have been told, the step marks and enqueues no component outside
\* the subscriber set, no component function runs before all subscribers are
\* enqueued, and a subscriber that has rendered since (it is clean again) has
\* read the Provider's new value.
C4_ProviderNotifiesSubscribers ==
    /\ \A i \in ProviderChanges :
          LET ev == trace[i]
          IN  /\ ev.subs \subseteq ev.dirtyA
              /\ \A s \in ev.subs : s \in Range(ev.queueA)
              /\ (ev.dirtyA \ ev.dirtyB) \subseteq ev.subs
              /\ \A d \in 1..Len(comps) :
                    Count(ev.queueA, d) = Count(ev.queueB, d)
                        + (IF d \in ev.subs \ ev.dirtyB THEN 1 ELSE 0)
              /\ \A k \in UpdateStart(trace, i)..i : trace[k].e # "render"
    /\ \A c \in 1..Len(comps) :
          (comps[c].mounted /\ ~comps[c].dirty) =>
              \A k \in 1..Len(comps[c].contexts) :
                  LET slot == comps[c].contexts[k]
                  IN  slot.provider # 0 => slot.read = provs[slot.provider].config.val

\* a Provider with two subscribers changed its value: both were enqueued, one
\* has been re-rendered by the patch and has read the new value, the other is
\* still waiting in the heap
C4_Witness ==
    \E i \in ProviderChanges :
        \E s1, s2 \in trace[i].subs :
            /\ s1 # s2
            /\ \E k \in (i + 1)..Len(trace) : trace[k].e = "render" /\ trace[k].a = s1
            /\ ~comps[s1].dirty
            /\ comps[s2].dirty
            /\ s2 \in Range(updateQueue)

-----------------------------------------------------------------------------
(* C5 *)

\* the components of the tree below v, each with the nearest enclosing
\* Provider of every token (0: none), found by walking the tree from the root
RECURSIVE Scopes(_, _)
Scopes(v, acc) ==
    CASE v.t = "Component" -> {<<v.id, acc>>} \cup Scopes(comps[v.id].child, acc)
      [] v.t = "Provider" ->
            Scopes(provs[v.id].child, [acc EXCEPT ![provs[v.id].config.tok] = v.id])
      [] v.t \in {"Element", "Fragment"} ->
            UNION {Scopes(v.children.s[i], acc) : i \in 1..Len(v.children.s)}
      [] OTHER -> {}

\* C5: the value useContext(token) returned to a component on its last render
\* (creation or update) is the value of the nearest enclosing Provider of that
\* token above the component in the tree, and the token's default value when
\* no Provider of that token encloses it; a component that has not rendered
\* since a Provider changed is dirty.
C5_UseContextReadsNearestProvider ==
    \A sc \in Scopes(root, NoProviders) :
        LET c == sc[1]
            nearest == sc[2]
        IN  (comps[c].mounted /\ ~comps[c].dirty) =>
                \A k \in 1..Len(comps[c].contexts) :
                    LET tok == comps[c].contexts[k].context
                    IN  comps[c].contexts[k].read =
                            (IF nearest[tok] # 0 THEN provs[nearest[tok]].config.val
                             ELSE DefaultValue(tok))

\* after both Providers changed their value: a component under the inner
\* Provider has read the inner value, one under the outer Provider only has read
\* the outer value, and one outside both has read the default
C5_Witness ==
    /\ pc = "idle"
    /\ \E s1, s2, s3 \in Scopes(root, NoProviders) :
          /\ s1[2][1] # 0 /\ s2[2][1] # 0 /\ s1[2][1] # s2[2][1] /\ s3[2][1] = 0
          /\ \A s \in {s1, s2, s3} :
                /\ comps[s[1]].contexts # <<>>
                /\ ~comps[s[1]].dirty
          /\ comps[s1[1]].contexts[1].read # comps[s2[1]].contexts[1].read
          /\ comps[s3[1]].contexts[1].read = DefaultValue(1)
          /\ provs[s1[2][1]].config.val \notin {0, 10}
          /\ provs[s2[2][1]].config.val \notin {0, 10}

-----------------------------------------------------------------------------
(* C6 *)

HostMutations ==
    {"hostCreate", "hostRemove", "hostReplace", "hostInsert", "hostSet", "hostText",
     "globalSet"}

UpdateEnd(e) ==
    CASE e = "E.update" -> "E.updated"
      [] e = "C.update" -> "C.updated"
      [] e = "P.update" -> "P.updated"

\* the update calls that were given the property bag the node already stores
SameBagUpdates ==
    {i \in 1..Len(trace) : trace[i].e \in {"E.update", "C.update", "P.update"}
                           /\ trace[i].b = 1}

\* the events logged between the start of update call i and its return
DuringUpdate(t, i) ==
    LET end == CHOOSE j \in (i + 1)..Len(t) :
                   /\ t[j].e = UpdateEnd(t[i].e) /\ t[j].a = t[i].a
                   /\ \A k \in (i + 1)..(j - 1) :
                         ~(t[k].e = UpdateEnd(t[i].e) /\ t[k].a = t[i].a)
    IN  {t[k] : k \in (i + 1)..(end - 1)}

\* C6: an update of a mounted Element, Component or Provider node with a
\* descriptor whose property bag is reference-identical to the stored one
\* mutates no host node, invokes no component function and enqueues no
\* component.
C6_SameBagUpdateDoesNothing ==
    \A i \in SameBagUpdates :
        \A ev \in DuringUpdate(trace, i) :
            ev.e \notin HostMutations \cup {"render", "enqueue", "producer", "setBegin"}

\* a Provider was updated with the bag it already stored, through a new
\* descriptor, and passed on to a Component and an Element the bags they stored
C6_Witness ==
    \E i \in SameBagUpdates :
        /\ trace[i].e = "P.update"
        /\ \A e \in {"E.update", "C.update"} :
              \E ev \in DuringUpdate(trace, i) : ev.e = e /\ ev.b = 1

-----------------------------------------------------------------------------
(* C7 *)

\* the virtual nodes of the tree below v, v included
RECURSIVE Nodes(_)
Nodes(v) ==
    {v} \cup
    CASE v.t = "Component" -> Nodes(comps[v.id].child)
      [] v.t = "Provider" -> Nodes(provs[v.id].child)
      [] v.t \in {"Element", "Fragment"} ->
            UNION {Nodes(v.children.s[i]) : i \in 1..Len(v.children.s)}
      [] OTHER -> {}

\* the value a property bag gives a name (Unset: none, or undefined)
BagValue(props, name) ==
    IF \E e \in props : e.name = name /\ e.value # Undefined
    THEN (CHOOSE e \in props : e.name = name).value
    ELSE Unset

\* C7: after any sequence of ElementNode.update calls the properties live on
\* the host element are exactly the entries of the last property bag whose
\* value is defined: a property of an earlier bag that the last bag lacks has
\* been cleared, and every property of the last bag holds the bag's value.
C7_LivePropertiesEqualLastBag ==
    \A v \in Nodes(root) :
        v.t = "Element" =>
            \A name \in OrdNames :
                dom[v.node].props[name] = BagValue(v.config.props, name)

-----------------------------------------------------------------------------
(* C8 *)

Reconciliations == {i \in 1..Len(trace) : trace[i].e = "positional"}

\* C8: a positional reconciliation of m mounted children against n
\* descriptors, for a Fragment's children and for an Element's children
\* property, performs min(m, n) per-position diffs, max(0, n - m) creations and
\* max(0, m - n) unmounts and leaves n mounted children in descriptor order; a
\* Fragment going from m > 0 children to none unmounts them all.
C8_PositionalReconciliation ==
    \A i \in Reconciliations :
        LET ev == trace[i]
            m == ev.a
            n == ev.b
        IN  /\ ev.diffs = Min(m, n)
            /\ ev.creations = Max(0, n - m)
            /\ ev.unmounts = Max(0, m - n)
            /\ Len(ev.after) = n
            /\ \A k \in 1..Min(n, Len(ev.after)) :
                  ev.after[k].t = "Text" => ev.after[k].config = ev.configs[k].val

-----------------------------------------------------------------------------
(* C9 *)

\* C9: when a parent stops rendering a component whose effect returned a
\* cleanup function, that cleanup is invoked exactly once over the whole
\* execution, before the component's host nodes are removed, whatever passive
\* effects are still waiting for the animation frame: no cleanup is invoked
\* twice, an unmounted component holds no cleanup that was not invoked, and a
\* cleanup of an unmounted component is invoked only by its unmount, ahead of
\* every host removal.
C9_CleanupOnceBeforeRemoval ==
    /\ \A t \in 1..Len(invoked) : invoked[t] <= 1
    /\ \A c \in 1..Len(comps) :
          ~comps[c].mounted =>
              \A e \in 1..Len(comps[c].effects) :
                  comps[c].effects[e].cleanup # 0 => invoked[comps[c].effects[e].cleanup] = 1
    /\ \A k \in 1..Len(trace) :
          (trace[k].e = "cleanup" /\ ~comps[trace[k].a].mounted) =>
              \E j \in 1..(k - 1) :
                  /\ trace[j].e = "cleanupBegin" /\ trace[j].a = trace[k].a
                  /\ \A i \in (j + 1)..(k - 1) : trace[i].e \notin {"hostRemove", "hostReplace"}

-----------------------------------------------------------------------------
(* C10 *)

\* the components of the tree
InTree == {v.id : v \in {n \in Nodes(root) : n.t = "Component"}}

\* position of the invocation of cleanup t of component c in the log (0: none)
CleanupAt(t, c, tok) ==
    IF \E i \in 1..Len(t) : t[i].e = "cleanup" /\ t[i].a = c /\ t[i].b = tok
    THEN CHOOSE i \in 1..Len(t) : t[i].e = "cleanup" /\ t[i].a = c /\ t[i].b = tok
    ELSE 0

\* C10: whenever a reconciliation step removes or replaces a subtree, every
\* Component inside it, also one nested under a host Element, ends with
\* mounted = FALSE, is subscribed to no Provider, and has had the cleanups of
\* its effects invoked in registration order.
C10_RemovedComponentsAreCleanedUp ==
    [][\A c \in InTree \ InTree' :
          /\ ~comps'[c].mounted
          /\ \A p \in 1..Len(provs') : c \notin Range(provs'[p].subscribers)
          /\ \A e \in 1..Len(comps[c].effects) :
                comps[c].effects[e].cleanup # 0 =>
                    CleanupAt(trace', c, comps[c].effects[e].cleanup) # 0
          /\ \A e1, e2 \in 1..Len(comps[c].effects) :
                (e1 < e2 /\ comps[c].effects[e1].cleanup # 0
                         /\ comps[c].effects[e2].cleanup # 0) =>
                    CleanupAt(trace', c, comps[c].effects[e1].cleanup)
                        < CleanupAt(trace', c, comps[c].effects[e2].cleanup)]_vars


-----------------------------------------------------------------------------
(* C11 *)

\* the effect records that hold cleanup function t
Holders(t) ==
    {ce \in {<<c, e>> : c \in 1..Len(comps), e \in 1..4} :
        /\ ce[2] <= Len(comps[ce[1]].effects)
        /\ comps[ce[1]].effects[ce[2]].cleanup = t}

\* C11: for every effect record, passive or layout, body runs and cleanup runs
\* strictly alternate: the cleanup a body run returned is invoked before the
\* next body run of that effect and before or at its component's unmount, never
\* twice, and it is never dropped without being invoked.  So a cleanup that was
\* not invoked yet is the one its effect record holds, in a mounted component,
\* and no cleanup was invoked more than once.
C11_BodyAndCleanupAlternate ==
    \A t \in 1..Len(invoked) :
        /\ invoked[t] <= 1
        /\ invoked[t] = 0 => \E ce \in Holders(t) : comps[ce[1]].mounted

-----------------------------------------------------------------------------
(* C12 *)
(* The dirty heap on its own: components created at chosen depths are      *)
(* marked dirty in a chosen order, then one drain pops them.  The log is   *)
(* kept across the steps here, so that the two orders can be compared.     *)

HeapSize == 4

MaxDepth == 3

EmptyWorld ==
    [comps |-> <<>>, provs |-> <<>>,
     dom |-> <<[kind |-> "container", text |-> "", kids |-> <<>>,
                props |-> [n \in OrdNames |-> Unset]]>>,
     updateQueue |-> <<>>, effects |-> <<>>, layoutEffects |-> <<>>, microtasks |-> 0,
     rafs |-> 0, hooks |-> 0, invoked |-> <<>>, globalNode |-> FALSE,
     refs |-> [r \in RefIds |-> 0], trace |-> <<>>, err |-> FALSE]

\* the world after creating the components ds[1..n], each under a context of
\* its depth, as createVNode does for a component met at that depth
RECURSIVE HeapWorld(_, _)
HeapWorld(ds, n) ==
    IF n = 0 THEN EmptyWorld
    ELSE NewComponentNode(HeapWorld(ds, n - 1), CComp("Leaf", 0, 0),
                          Ctx(ds[n], NoProviders)).w

\* the components are numbered by depth; the order in which they are marked is
\* free, so that every sequence of depths gets enqueued
InitHeap ==
    \E ds \in {d \in [1..HeapSize -> 0..MaxDepth] :
                  \A i \in 1..(HeapSize - 1) : d[i] <= d[i + 1]} :
    \E W \in {HeapWorld(ds, HeapSize)} :
        /\ app = "heap"
        /\ root = VNone
        /\ comps = W.comps
        /\ provs = W.provs
        /\ dom = W.dom
        /\ updateQueue = <<>>
        /\ effects = <<>>
        /\ layoutEffects = <<>>
        /\ microtasks = 0
        /\ rafs = 0
        /\ hooks = 0
        /\ pc = "idle"
        /\ invoked = <<>>
        /\ globalNode = FALSE
        /\ refs = W.refs
        /\ clicks = 0
        /\ trace = <<>>

DrainStarted == \E i \in 1..Len(trace) : trace[i].e = "renderLoop"

\* requestComponentRerender(c), called before the drain starts
HeapRequest(c) ==
    /\ pc = "idle"
    /\ ~DrainStarted
    /\ ~comps[c].dirty
    /\ Commit(requestComponentRerender([World EXCEPT !.trace = trace], c))
    /\ UNCHANGED <<root, clicks, pc>>

HeapRequests == \E c \in 1..Len(comps) : HeapRequest(c)

\* renderLoop and its inner pass, with the log kept
LoggedRenderLoop ==
    /\ pc = "idle"
    /\ microtasks > 0
    /\ Commit(Log([World EXCEPT !.microtasks = @ - 1, !.trace = trace], "renderLoop", 0, 0))
    /\ pc' = EnterRenderLoop(World)
    /\ UNCHANGED <<root, clicks>>

LoggedDrainPop ==
    /\ pc = "inner"
    /\ \E W1 \in {renderLoopPop([World EXCEPT !.trace = trace])} :
           /\ Commit(W1)
           /\ pc' = Position(W1, IF Len(W1.updateQueue) > 0 THEN "inner"
                                 ELSE IF Len(W1.layoutEffects) > 0 THEN "layout"
                                 ELSE "idle")
    /\ UNCHANGED <<root, clicks>>

NextHeap == HeapRequests \/ LoggedRenderLoop \/ LoggedDrainPop

SpecHeap == InitHeap /\ [][NextHeap]_vars

\* the depths of the components of the events e of the log, in order
DepthsOf(t, e) ==
    LET s == SelectSeq(t, LAMBDA ev : ev.e = e)
    IN  [i \in 1..Len(s) |-> comps[s[i].a].depth]

NonDecreasing(s) == \A i \in 1..Len(s) : \A j \in i..Len(s) : s[i] <= s[j]

\* every component is in the heap as often as it was enqueued and not yet popped
HeapKeepsEntries ==
    \A c \in 1..Len(comps) :
        Cardinality({i \in 1..Len(trace) : trace[i].e = "enqueue" /\ trace[i].a = c})
        = Count(updateQueue, c)
          + Cardinality({i \in 1..Len(trace) : trace[i].e = "dequeue" /\ trace[i].a = c})

\* a step that pops the heap takes out one entry of minimum depth and keeps the rest
PopsMinimum ==
    Len(updateQueue') < Len(updateQueue) =>
        \E c \in Range(updateQueue) :
            /\ \A d \in Range(updateQueue) : comps[c].depth <= comps[d].depth
            /\ Last(SelectSeq(trace', LAMBDA ev : ev.e = "dequeue")).a = c
            /\ \A d \in Range(updateQueue) :
                   Count(updateQueue', d) = Count(updateQueue, d) - (IF d = c THEN 1 ELSE 0)

\* C12: components marked dirty and enqueued before a drain starts, with nothing
\* enqueued during it, are popped by the drain loop in non-decreasing depth
\* order; every dequeue returns an entry of minimum depth among those queued
\* and no entry is lost or duplicated.
C12_DrainPopsInDepthOrder ==
    /\ [](NonDecreasing(DepthsOf(trace, "dequeue")) /\ HeapKeepsEntries)
    /\ [][PopsMinimum]_vars

\* depths enqueued in the order 3, 1, 2, 1 were popped in the order 1, 1, 2, 3
C12_Witness ==
    /\ DepthsOf(trace, "enqueue") = <<3, 1, 2, 1>>
    /\ DepthsOf(trace, "dequeue") = <<1, 1, 2, 3>>
    /\ updateQueue = <<>>

-----------------------------------------------------------------------------
(* C13 *)

\* the re-renders (not the first renders) logged in t, in order
UpdateRenders(t) == SelectSeq(t, LAMBDA ev : ev.e = "render" /\ ev.b = 1)

\* the components the drain loop popped in the step logged in t
PoppedIn(t) == {t[i].a : i \in {k \in 1..Len(t) : t[k].e = "dequeue"}}

-----------------------------------------------------------------------------
(* C14 *)

\* the useEffect and useLayoutEffect calls of component c, in call order
EffectHooks(c) ==
    SelectSeq(Program(comps[c].config.tag, comps[c].config.val, StateVals(World, c)),
              LAMBDA h : h.h \in {"effect", "layout"})

\* effect record e of component c belongs to a useEffect call
IsPassive(c, e) == EffectHooks(c)[e].h = "effect"

\* the last step was a step of the animation-frame flush
InFlush == trace # <<>> /\ trace[1].e = "effect"

C14_State ==
    /\ \A i \in 1..Len(trace) :
           (trace[i].e = "effectBody" /\ IsPassive(trace[i].a, trace[i].b)) => InFlush
    /\ (trace # <<>> /\ trace[1].e = "animationFrame") =>
           (updateQueue = <<>> /\ layoutEffects = <<>>)
    /\ (InFlush /\ pc # "flush") => effects = <<>>

C14_Step ==
    pc = "flush" =>
        /\ trace'[1].e = "effect"
        /\ effects' = Front(effects)
        /\ \E i \in 1..Len(trace') :
               /\ trace'[i].e = "effectBody"
               /\ trace'[i].a = Last(effects).c
               /\ trace'[i].b = Last(effects).e

-----------------------------------------------------------------------------
(* C15 *)

\* the host text component c renders shows the value of its state cell
Shown(c) ==
    CASE comps[c].config.tag = "Low" ->
             dom[comps[c].child.node].text = ToString(comps[c].data[1].value)
      [] comps[c].config.tag = "Mid" ->
             dom[comps[c].child.children.s[1].node].text = ToString(comps[c].data[1].value)
      [] OTHER -> TRUE

\* the last step was the last one of a run of the drain loop
DrainReturned ==
    /\ pc = "idle"
    /\ trace # <<>>
    /\ trace[1].e \in {"dequeue", "layoutEffect", "renderLoop"}

C15_State ==
    /\ (pc = "layout" /\ trace[1].e # "layoutEffect") => updateQueue = <<>>
    /\ DrainReturned =>
           /\ updateQueue = <<>>
           /\ layoutEffects = <<>>
           /\ \A c \in 1..Len(comps) : comps[c].mounted => (~comps[c].dirty /\ Shown(c))

C15_Step ==
    pc = "layout" =>
        /\ trace'[1].e = "layoutEffect"
        /\ layoutEffects' = Front(layoutEffects)
        /\ \E i \in 1..Len(trace') :
               /\ trace'[i].e = "effectBody"
               /\ trace'[i].a = Last(layoutEffects).c
               /\ trace'[i].b = Last(layoutEffects).e

\* C15: the drain loop starts running layout effects only when the dirty heap
\* is empty and runs them last-registered-first; it returns only when the heap
\* and the layout-effect stack are both empty, so that a state change made by
\* a layout effect or during a render has been re-rendered and is shown by the
\* host nodes when the drain loop returns.
C15_DrainRunsToQuiescence == [](C15_State) /\ [][C15_Step]_vars

\* a layout effect run by the drain loop after a click changed a state cell,
\* and the loop goes back to the heap
C15_Witness ==
    /\ pc = "inner"
    /\ clicks > 0
    /\ trace # <<>>
    /\ trace[1].e = "layoutEffect"
    /\ \E i \in 1..Len(trace) : trace[i].e = "setEnd" /\ trace[i].old # trace[i].new

-----------------------------------------------------------------------------
(* C16 *)

\* mount has returned and nothing has happened since
MountReturned ==
    /\ pc = "idle"
    /\ clicks = 0
    /\ trace # <<>>
    /\ trace[1].e \notin {"renderLoop", "animationFrame", "effect"}

\* the passive effect closures of component c that are still waiting for the flush
PendingPassive(c) == {i \in 1..Len(effects) : effects[i].c = c}

C16_State ==
    MountReturned =>
        /\ dom[1].kids = getNodeForInsertion(World, root)
        /\ dom[1].kids # <<>>
        /\ updateQueue = <<>>
        /\ layoutEffects = <<>>
        /\ \A c \in 1..Len(comps) :
               /\ ~comps[c].dirty
               /\ Shown(c)
               /\ comps[c].config.tag = "Low" =>
                      /\ comps[c].data[1].value = 2
                      /\ \E i \in PendingPassive(c) : effects[i].creation
        /\ rafs = 1

\* until mount has returned no passive effect body runs
C16_Step ==
    (clicks = 0 /\ pc \in {"init", "mountLayout", "inner", "layout"}) =>
        \A i \in 1..Len(trace') :
            trace'[i].e = "effectBody" => ~IsPassive(trace'[i].a, trace'[i].b)

\* C16: when mount returns without an error the root's host nodes are the
\* children of the container, every layout effect registered during creation
\* and during the re-renders it caused has run, the dirty heap and the
\* layout-effect stack are empty, and no passive effect body has run: the
\* passive effects registered so far still wait for the animation frame.
C16_MountReturnsQuiescent == [](C16_State) /\ [][C16_Step]_vars

\* mount returns after the re-render that a creation-time layout effect caused
C16_Witness ==
    /\ MountReturned
    /\ trace[1].e = "layoutEffect"
    /\ \E c \in 1..Len(comps) : comps[c].config.tag = "Low" /\ comps[c].data[1].value = 2

-----------------------------------------------------------------------------
(* C17 *)
(* Two counters, each a button and a span showing n.  The log is kept      *)
(* across the steps, so that clicks and re-renders can be counted.         *)

\* the click handler of counter c: setN(n => n + 1), called when the drain of
\* the previous click has run
CounterClick(c) ==
    /\ pc = "idle"
    /\ microtasks = 0
    /\ comps[c].config.tag = "Counter"
    /\ comps[c].data[1].value < MaxClicks
    /\ Commit(Log(Setter(Log([World EXCEPT !.trace = trace], "click", c, 1),
                         c, 1, comps[c].data[1].value + 1),
                  "clicked", c, 1))
    /\ clicks' = clicks + 1
    /\ UNCHANGED <<root, pc>>

CounterClicks == \E c \in 1..Len(comps) : CounterClick(c)

InitCounter == InitApp("counter")

NextCounter == mount \/ CounterClicks \/ LoggedRenderLoop \/ LoggedDrainPop

SpecCounter == InitCounter /\ [][NextCounter]_vars

\* how many events e about a the log holds, with argument b
Events(e, a, b) ==
    Cardinality({i \in 1..Len(trace) : trace[i].e = e /\ trace[i].a = a /\ trace[i].b = b})

\* the host nodes of the button and of the span of counter c
ButtonOf(c) == comps[c].child.children.s[1].node

SpanOf(c) == comps[c].child.children.s[2].node

\* the text of the span of counter c
SpanText(c) == dom[comps[c].child.children.s[2].children.s[1].node].text

\* the place of the first event e in the log (0: none)
FirstEvent(e) ==
    IF \E i \in 1..Len(trace) : trace[i].e = e
    THEN CHOOSE i \in 1..Len(trace) :
             trace[i].e = e /\ \A j \in 1..(i - 1) : trace[j].e # e
    ELSE 0

\* the button and the span of c are the host nodes created at mount, still
\* children of the counter's element in that order
SameHostNodes(c) ==
    /\ \A i \in 1..Len(trace) :
           trace[i].e \in {"hostCreate", "hostRemove", "hostReplace", "hostInsert"} =>
               (FirstEvent("click") = 0 \/ i < FirstEvent("click"))
    /\ \E i \in 1..Len(trace) : trace[i].e = "hostCreate" /\ trace[i].a = ButtonOf(c)
    /\ \E i \in 1..Len(trace) : trace[i].e = "hostCreate" /\ trace[i].a = SpanOf(c)
    /\ dom[comps[c].child.node].kids = <<ButtonOf(c), SpanOf(c)>>

\* C17: a mounted counter (a button and a span showing n, n = 0 at first) whose
\* click handler was invoked k times, each time followed by its own drain,
\* shows k in the span, was re-rendered exactly k times after its creation, and
\* its button and span are the host nodes created at mount; for k = 3 the span
\* reads "3" after three re-renders.
C17_CounterShowsClicks ==
    \A c \in 1..Len(comps) :
        (comps[c].config.tag = "Counter" /\ pc = "idle" /\ microtasks = 0) =>
            /\ ~comps[c].dirty
            /\ SpanText(c) = ToString(Events("click", c, 1))
            /\ Events("render", c, 1) = Events("click", c, 1)
            /\ Events("render", c, 0) = 1
            /\ SameHostNodes(c)

\* a counter was clicked three times and its third drain has run
C17_Witness ==
    \E c \in 1..Len(comps) :
        /\ comps[c].config.tag = "Counter"
        /\ pc = "idle"
        /\ microtasks = 0
        /\ Events("click", c, 1) = 3
        /\ Events("render", c, 1) = 3
        /\ SpanText(c) = "3"

-----------------------------------------------------------------------------
(* C18 *)

\* the place of the throw in the log t (0: nothing was thrown)
ThrownAt(t) ==
    IF \E i \in 1..Len(t) : t[i].e = "throw"
    THEN CHOOSE i \in 1..Len(t) : t[i].e = "throw"
    ELSE 0

\* C18: when a component function throws during a re-render started by the
\* drain loop, the error leaves the drain loop and ends that run of it: the
\* components still in the heap stay there, dirty and not re-rendered, and the
\* layout effects registered so far stay on the stack and are not run.
C18_ThrowAbortsTheDrain ==
    [][(pc = "inner" /\ ThrownAt(trace') # 0) =>
          /\ pc' = "idle"
          /\ Cardinality(PoppedIn(trace')) = 1
          /\ \A c \in PoppedIn(trace') :
                 \A d \in Range(updateQueue) :
                     Count(updateQueue', d) = Count(updateQueue, d) - (IF d = c THEN 1 ELSE 0)
          /\ \A d \in Range(updateQueue') : comps'[d].dirty = comps[d].dirty
          /\ \A i \in 1..Len(trace') :
                 (i > ThrownAt(trace')) => trace'[i].e \notin {"render", "dequeue"}
          /\ layoutEffects' = layoutEffects
          /\ \A i \in 1..Len(trace') : trace'[i].e \notin {"layoutEffect", "effectBody"}]_vars

\* a re-render has thrown while a dirty component was still in the heap and a
\* layout effect of a component re-rendered before was on the stack
C18_Witness ==
    /\ ThrownAt(trace) # 0
    /\ PoppedIn(trace) # {}
    /\ pc = "idle"
    /\ \E d \in Range(updateQueue) : comps[d].dirty /\ comps[d].mounted
    /\ layoutEffects # <<>>

-----------------------------------------------------------------------------
(* C19 *)

\* what requestComponentRerender(c) does to the scheduler W
RequestLaw(W, c) ==
    LET W1 == requestComponentRerender(W, c)
    IN  IF W.comps[c].dirty \/ ~W.comps[c].mounted
        THEN W1 = W
        ELSE /\ W1.comps = [W.comps EXCEPT ![c].dirty = TRUE]
             /\ Len(W1.updateQueue) = Len(W.updateQueue) + 1
             /\ \A d \in 1..Len(W.comps) :
                    Count(W1.updateQueue, d)
                    = Count(W.updateQueue, d) + (IF d = c THEN 1 ELSE 0)
             /\ W1.microtasks = W.microtasks + (IF W.updateQueue = <<>> THEN 1 ELSE 0)
             /\ [W1 EXCEPT !.trace = <<>>]
                = [W EXCEPT !.comps = W1.comps, !.updateQueue = W1.updateQueue,
                            !.microtasks = W1.microtasks]

\* C19: requestComponentRerender(c) on a component that is already dirty or
\* already unmounted changes nothing: heap, flags and scheduled drains stay as
\* they are; on any other component it sets c.dirty, adds exactly one heap
\* entry for c and schedules a microtask drain exactly when the heap was empty
\* before the call.
C19_RequestRerenderLaw == \A c \in 1..Len(comps) : RequestLaw(World, c)

\* a setter has just called requestComponentRerender on a component that was
\* already dirty, with other components in the heap, and nothing changed
C19_Witness ==
    \E i \in SetterCalls :
        /\ StrictNeq(trace[i].old, trace[i].new)
        /\ trace[i].a \in trace[i].dirtyB
        /\ Len(trace[i].queueB) >= 2
        /\ trace[i].queueA = trace[i].queueB
        /\ trace[i].microA = trace[i].microB

-----------------------------------------------------------------------------
(* C20 *)

\* how often the step logged in t re-rendered component c
Rerenders(t, c) ==
    Cardinality({i \in 1..Len(t) : t[i].e = "render" /\ t[i].a = c /\ t[i].b = 1})

\* component c was marked dirty in the step logged in t
Marked(t, c) == \E i \in 1..Len(t) : t[i].e = "enqueue" /\ t[i].a = c

\* the claim as stated: the mark of a mounted component whose state was changed
\* before the drain is taken off by a re-render of it in the drain
C20_Original ==
    [][\A c \in 1..Len(comps) :
           (comps[c].dirty /\ comps[c].mounted /\ ~comps'[c].dirty) =>
               Rerenders(trace', c) = 1]_vars

C20_State ==
    /\ \A c \in 1..Len(comps) :
           (comps[c].dirty /\ comps[c].mounted) => c \in Range(updateQueue)
    /\ DrainReturned => \A c \in 1..Len(comps) : ~comps[c].dirty

C20_Step ==
    \A c \in 1..Len(comps) :
        /\ Rerenders(trace', c) <= 1
        /\ (comps[c].dirty /\ comps[c].mounted /\ ~comps'[c].dirty) =>
               (Rerenders(trace', c) = 1 \/ ~comps'[c].mounted)
        /\ (comps[c].dirty /\ Rerenders(trace', c) = 1 /\ ~Marked(trace', c)) =>
               ~comps'[c].dirty
        /\ (pc = "idle" /\ comps[c].dirty) =>
               Count(updateQueue', c) = Count(updateQueue, c)
        /\ (pc = "inner" /\ c \in PoppedIn(trace')) =>
               IF comps[c].dirty /\ comps[c].mounted
               THEN Happened(trace', "schedRender", c)
               ELSE /\ comps' = comps
                    /\ dom' = dom
                    /\ \A i \in 1..Len(trace') : trace'[i].e = "dequeue"

\* C20: re-renders are batched.  State changes to a component that is already
\* dirty add no heap entry; a dirty mounted component is in the heap, and its
\* mark is taken off by exactly one re-render of it, by the scheduler or by its
\* parent's patch before, or by its unmount when an ancestor's re-render
\* removes it first (then it is not re-rendered); a pop that finds the
\* component clean or unmounted does nothing, so a component is re-rendered at
\* most once for a marking also when it is in the heap more than once; when the
\* drain loop returns no component is dirty.
C20_RerendersAreBatched == [](C20_State) /\ [][C20_Step]_vars

\* a pop has found a mounted component clean and skipped it
C20_Witness ==
    /\ Len(trace) = 1
    /\ trace[1].e = "dequeue"
    /\ comps[trace[1].a].mounted
    /\ ~comps[trace[1].a].dirty
    /\ clicks >= 2

-----------------------------------------------------------------------------
(* C21 *)

\* the component instances that reconciliation has removed from the tree
Removed == (1..Len(comps)) \ InTree

\* C21: once a component instance has been removed from the tree (it or a node
\* above it, a host Element included, was unmounted or replaced), its function
\* is never invoked again: no step renders it, and no setter call or Provider
\* change enqueues it or marks it dirty.
C21_RemovedComponentsNeverRender ==
    [][pc # "init" =>
          \A c \in Removed :
              /\ \A i \in 1..Len(trace') :
                     trace'[i].a = c => trace'[i].e \notin {"render", "enqueue", "schedRender"}
              /\ ~comps'[c].dirty]_vars

-----------------------------------------------------------------------------
(* C22 *)

\* the mounted components with a context slot that is resolved to Provider p
ReadersOf(p) ==
    {c \in 1..Len(comps) :
        /\ comps[c].mounted
        /\ \E i \in 1..Len(comps[c].contexts) : comps[c].contexts[i].provider = p}

\* C22: in every reachable state the subscriber set of a Provider is exactly
\* the set of mounted components with at least one context slot resolved to
\* it: a component stays subscribed while any of its slots reads the Provider,
\* also when another of its slots switches to a different context, and is
\* removed when it unmounts.
C22_SubscribersAreTheReaders ==
    \A p \in 1..Len(provs) : Range(provs[p].subscribers) = ReadersOf(p)


-----------------------------------------------------------------------------
(* C23 *)

\* the useImperativeHandle cells of the mounted components that were given a ref
HandleCells ==
    {x \in (1..Len(comps)) \X (1..3) :
        /\ comps[x[1]].mounted
        /\ x[2] <= Len(comps[x[1]].data)
        /\ comps[x[1]].data[x[2]].kind = "handle"
        /\ comps[x[1]].data[x[2]].ref # 0}

\* C23: after every render the ref most recently supplied to useImperativeHandle
\* holds the handle; in particular a re-render that supplies another ref with
\* unchanged dependencies detaches the old ref and attaches the existing handle
\* to the new one.
C23_SuppliedRefHoldsTheHandle ==
    \A x \in HandleCells :
        refs[comps[x[1]].data[x[2]].ref] = comps[x[1]].data[x[2]].value

-----------------------------------------------------------------------------
(* C24 *)

HandleCalls == {i \in DepsCalls : trace[i].h = "handle"}

\* C24: on every re-render useImperativeHandle calls its producer if and only if
\* the dependency list differs from the list the immediately preceding render
\* supplied at that call, not from the list supplied at creation.
C24_ProducerFollowsThePrecedingList ==
    \A i \in HandleCalls :
        (trace[i].ran > 0) <=> DependenciesDiffer(trace[i].prev, trace[i].next)


-----------------------------------------------------------------------------
(* C25 *)

\* C25: whatever sequence of values the ref property of an Element has taken,
\* the ref of the current property bag, and no other ref, holds the Element's
\* host node: every ref supplied earlier has been detached.
C25_CurrentRefIsTheOneAttached ==
    \A v \in Nodes(root) :
        v.t = "Element" =>
            \A r \in RefIds : (refs[r] = v.node) <=> (BagValue(v.config.props, NameRef) = r)


-----------------------------------------------------------------------------
(* C26 *)

\* the mounted virtual nodes: those reachable from the root, and the
\* Components whose mounted flag is set
MountedNodes == Nodes(root) \cup {VComp(c) : c \in {k \in 1..Len(comps) : comps[k].mounted}}

\* the nodes that render nothing: Null nodes and Fragments without children
EmptyNodes == {v \in Nodes(root) : v.t = "Null" \/ (v.t = "Fragment" /\ ~v.children.has)}

\* C26: the first and the last host node every mounted virtual node reports
\* are attached under the mount container, and a Null node or an empty Fragment
\* owns exactly one attached placeholder.
C26_ReportedNodesAreAttached ==
    pc # "init" =>
        /\ \A v \in MountedNodes :
               /\ Attached(dom, getFirstNode(World, v))
               /\ Attached(dom, getLastNode(World, v))
        /\ \A v \in EmptyNodes :
               /\ v.node # 0
               /\ dom[v.node].kind = "comment"
               /\ Attached(dom, v.node)


-----------------------------------------------------------------------------
(* C27 *)

\* C27: every dirty component is eventually re-rendered or unmounted: in every
\* state, also after a component function threw inside a drain, a non-empty
\* dirty heap has a drain loop running or a microtask drain scheduled.
C27_DirtyHeapHasADrain ==
    Len(updateQueue) > 0 => pc \in {"inner", "layout"} \/ microtasks > 0


-----------------------------------------------------------------------------
(* C28 *)

\* C28: whenever no component function is executing, which is so in every
\* state between two steps of the scheduler, the module-level hooks pointer is
\* unset; this holds after every creation and every re-render, also after a
\* re-render whose component function threw.
C28_HooksUnsetBetweenRenders == hooks = 0


-----------------------------------------------------------------------------
(* C29 *)

\* C29: no effect body, passive or layout, runs after its owning component was
\* unmounted: every body a step runs belongs to a component that is mounted,
\* so the flush does not execute the pending passive effect of a component
\* that was unmounted in the meantime.
C29_NoEffectBodyAfterUnmount ==
    [][\A i \in 1..Len(trace') :
          trace'[i].e = "effectBody" => comps'[trace'[i].a].mounted]_vars


-----------------------------------------------------------------------------
(* C30 *)

\* a step of the flush: it pops the closure on top of the effect queue and runs it
FlushStep == pc = "flush" /\ Len(effects') < Len(effects)

\* nothing else is pending for the effect record of closure cl: the flush runs
\* no other body for the record after this one
RunsLast(cl) ==
    \A k \in 1..Len(effects') : ~(effects'[k].c = cl.c /\ effects'[k].e = cl.e)

\* C30: when a component rendered more than once before the flush, the body the
\* flush runs last for an effect record is the body registered by the most
\* recent render (the one that closed over the dependency the record now
\* stores), so the cleanup left in the record is the one that body returned.
C30_LastRunBodyIsTheLatest ==
    [][FlushStep =>
          LET cl == Last(effects)
          IN  RunsLast(cl) => cl.body.to = comps[cl.c].effects[cl.e].dependencies.d[1]]_vars


-----------------------------------------------------------------------------
(* C31 *)

MemoCalls == {i \in DepsCalls : trace[i].h = "memo"}

\* C31: one useMemo call of a re-render invokes the producer exactly once when
\* the dependency list changed and not at all otherwise, whatever pair of
\* previous and new lists it is given, also a pair that differs in length and
\* in an element.
C31_ProducerAtMostOnce ==
    \A i \in MemoCalls :
        trace[i].ran = IF DependenciesDiffer(trace[i].prev, trace[i].next) THEN 1 ELSE 0

====
